---- MODULE Spec2Model ----
(***************************************************************************)
(* Verification model of the Setwise backend: the agenda builder           *)
(* (modules/planner.py), the staged orchestration engine (pipeline.py),    *)
(* the job runner (main.py) and the in-memory job store (job_store.py).    *)
(*                                                                         *)
(* The specifications of this module:                                      *)
(*   SpecAgenda  _normalize_agenda / topological_order on bounded inputs   *)
(*   SpecTiming  per-line timing merge and global timing reconstruction    *)
(*   Spec        run_pipeline + _execute_job + finalize thread + job store *)
(*   FairSpec    Spec with the scheduling that the runner relies on        *)
(*   SpecSink    Spec with an on_stage callback that can raise             *)
(*   SpecStore   InMemoryJobStore called from several threads              *)
(*   SpecNovelty compute_section_novelty on bounded texts                  *)
(*   SpecStorage Spec with a storage write that can raise                  *)
(*   SpecGuard   the body loop with its topicality and novelty guards      *)
(* Each specification leaves the variables of the others at their idle     *)
(* values.                                                                 *)
(***************************************************************************)
EXTENDS Integers, Sequences, FiniteSets, TLC

VARIABLES
    \* ---- agenda builder (planner.py) ----
    ag_pc,          \* "input" | "normalized"
    ag_raw,         \* the raw agenda dict: [nodes, edges]
    agenda          \* the value returned by _normalize_agenda

agVars == <<ag_pc, ag_raw, agenda>>

VARIABLES
    \* ---- timing merge and global timing reconstruction (pipeline.py) ----
    tm_pc,          \* "merge" | "done"
    tm_sections,    \* transcript_sections with their lines
    tm_stats        \* stats_out of the synthesis task consumed last, and its section

tmVars == <<tm_pc, tm_sections, tm_stats>>

VARIABLES
    \* ---- one job: run_pipeline, its synthesis futures, the finalize thread,
    \*      the job runner _execute_job and the job's record in the store ----
    env,            \* os.environ switches read by run_pipeline
    pl,             \* the frame of run_pipeline (its locals and its position)
    futures,        \* section_index -> state of that section's synthesis future
    fin,            \* the frame of the background thread _finalize_async
    rn,             \* the frame of the coroutine _execute_job
    job,            \* the JobRecord of this job in InMemoryJobStore
    stages_emitted  \* the stage names passed to on_stage so far

jobVars == <<env, pl, futures, fin, rn, job, stages_emitted>>

VARIABLES
    \* ---- InMemoryJobStore called from several threads (job_store.py) ----
    st_jobs,        \* self._jobs: job_id -> JobRecord
    st_lock,        \* self._lock: 0 when free, else the caller that holds it
    st_calls,       \* caller -> the frame of its call of create/get/update
    st_clock        \* the number of utc_now() readings so far

stVars == <<st_jobs, st_lock, st_calls, st_clock>>

VARIABLES
    \* ---- one call of compute_section_novelty (modules/generator.py) ----
    nv_pc,          \* "input" | "done"
    nv_script,      \* section_script: the text of each item
    nv_points,      \* covered_points
    nv_score        \* the value returned, in ten-thousandths

nvVars == <<nv_pc, nv_script, nv_points, nv_score>>

VARIABLES
    \* ---- the body loop of run_pipeline with its guards (pipeline.py) ----
    gd              \* the locals of the loop: node, section_script, novelty,
                    \* coverage_memory, and the section record appended last

gdVars == <<gd>>

vars == <<agVars, tmVars, jobVars, stVars, nvVars, gdVars>>

(***************************************************************************)
(* Idle values: what a specification assigns to the parts it does not run  *)
(***************************************************************************)
Topic == "T"

EmptyAgenda ==
    [topic |-> Topic, nodes |-> <<>>, edges |-> <<>>,
     ordered_node_ids |-> <<>>, chapters |-> <<>>]

AgendaIdle ==
    /\ ag_pc = "idle"
    /\ ag_raw = [nodes |-> <<>>, edges |-> <<>>]
    /\ agenda = EmptyAgenda

TimingIdle == tm_pc = "idle" /\ tm_sections = <<>> /\ tm_stats = <<>>

JobIdle ==
    /\ env = <<>>
    /\ pl = <<>>
    /\ futures = <<>>
    /\ fin = <<>>
    /\ rn = <<>>
    /\ job = <<>>
    /\ stages_emitted = {}

StoreIdle ==
    /\ st_jobs = <<>>
    /\ st_lock = 0
    /\ st_calls = <<>>
    /\ st_clock = 0

NoveltyIdle ==
    /\ nv_pc = "idle"
    /\ nv_script = <<>>
    /\ nv_points = <<>>
    /\ nv_score = 0

GuardIdle == gd = <<>>

(***************************************************************************)
(* Generic helpers                                                         *)
(***************************************************************************)
Range(s) == {s[i] : i \in 1 .. Len(s)}

Max2(a, b) == IF a >= b THEN a ELSE b

Min2(a, b) == IF a <= b THEN a ELSE b

\* All sequences over S of length at most n.
SeqsUpTo(S, n) == UNION {[1 .. k -> S] : k \in 0 .. n}

(***************************************************************************)
(* planner.py : _normalize_agenda, topological_order,                      *)
(*              _build_chapters_from_ordered_nodes                         *)
(***************************************************************************)
\* Bounds of the agenda inputs.
MaxRawFree == 2     \* leading raw nodes with freely chosen id / title
MaxFiller == 6      \* trailing raw nodes without id, with a title
MaxEdges == 2       \* raw edges

min_nodes == 5
max_nodes == 7

\* f"n{k}"
NId(k) == "n" \o ToString(k)

\* The fixed fallback templates; the Japanese suffixes are written in ASCII.
pad_templates ==
    << [title |-> Topic \o "-background", role |-> "premise"],
       [title |-> Topic \o "-main-factors", role |-> "cause"],
       [title |-> Topic \o "-impact", role |-> "effect"],
       [title |-> "practical-reframe", role |-> "reframe"],
       [title |-> "objections-constraints", role |-> "conflict"] >>

\* nodes_raw -> nodes : keep the titled nodes; a node without id is named by
\* its 1-based position in the raw list.  i is the 1-based position (idx+1).
RECURSIVE CollectNodes(_, _)
CollectNodes(nodes_raw, i) ==
    IF i > Len(nodes_raw) THEN <<>>
    ELSE LET node == nodes_raw[i]
             node_id == IF node.id # "" THEN node.id ELSE NId(i)
         IN  IF node.title = ""
             THEN CollectNodes(nodes_raw, i + 1)
             ELSE << [id |-> node_id, title |-> node.title,
                      role |-> "point", note |-> ""] >>
                  \o CollectNodes(nodes_raw, i + 1)

\* The padding loop over pad_templates, from template t on.
RECURSIVE PadLoop(_, _, _, _)
PadLoop(nodes, existing_titles, next_id, t) ==
    IF t > Len(pad_templates) THEN nodes
    ELSE IF Len(nodes) >= min_nodes THEN nodes
    ELSE IF pad_templates[t].title \in existing_titles
         THEN PadLoop(nodes, existing_titles, next_id, t + 1)
    ELSE PadLoop(Append(nodes, [id |-> NId(next_id),
                                title |-> pad_templates[t].title,
                                role |-> pad_templates[t].role,
                                note |-> ""]),
                 existing_titles \cup {pad_templates[t].title},
                 next_id + 1, t + 1)

PadNodes(nodes) ==
    IF Len(nodes) < min_nodes
    THEN PadLoop(nodes, {nodes[i].title : i \in 1 .. Len(nodes)}, Len(nodes) + 1, 1)
    ELSE nodes

ClampNodes(nodes) ==
    IF Len(nodes) > max_nodes THEN SubSeq(nodes, 1, max_nodes) ELSE nodes

KeepEdges(nodes, edges_raw) ==
    LET node_ids == {nodes[i].id : i \in 1 .. Len(nodes)}
    IN  SelectSeq(edges_raw,
                  LAMBDA e : e.from \in node_ids /\ e.to \in node_ids /\ e.from # e.to)

FallbackNodes ==
    << [id |-> "n1", title |-> Topic \o "-background", role |-> "premise", note |-> ""],
       [id |-> "n2", title |-> Topic \o "-main-factors", role |-> "cause", note |-> ""],
       [id |-> "n3", title |-> Topic \o "-impact", role |-> "effect", note |-> ""],
       [id |-> "n4", title |-> "practical-reframe", role |-> "reframe", note |-> ""] >>

FallbackEdges ==
    << [from |-> "n1", to |-> "n2"],
       [from |-> "n2", to |-> "n3"],
       [from |-> "n3", to |-> "n4"] >>

\* indeg after the edge loop (all endpoints are node ids or get an entry).
InDegree(ids, edges) ==
    [x \in ids \cup {edges[i].from : i \in 1 .. Len(edges)}
             \cup {edges[i].to : i \in 1 .. Len(edges)} |->
        Cardinality({i \in 1 .. Len(edges) : edges[i].to = x})]

\* graph[cur] : the successors of cur in edge order.
Successors(edges, cur) ==
    LET out == SelectSeq(edges, LAMBDA e : e.from = cur)
    IN  [i \in 1 .. Len(out) |-> out[i].to]

\* for nxt in graph[cur]: indeg[nxt] -= 1; if indeg[nxt] == 0: q.append(nxt)
RECURSIVE RelaxLoop(_, _, _, _)
RelaxLoop(succ, j, indeg, q) ==
    IF j > Len(succ) THEN [indeg |-> indeg, q |-> q]
    ELSE LET nxt == succ[j]
             indeg2 == [indeg EXCEPT ![nxt] = @ - 1]
         IN  RelaxLoop(succ, j + 1, indeg2,
                       IF indeg2[nxt] = 0 THEN Append(q, nxt) ELSE q)

\* while q: cur = q.popleft(); ordered.append(cur); relax successors
RECURSIVE KahnLoop(_, _, _, _)
KahnLoop(edges, q, ordered, indeg) ==
    IF q = <<>> THEN ordered
    ELSE LET cur == Head(q)
             r == RelaxLoop(Successors(edges, cur), 1, indeg, Tail(q))
         IN  KahnLoop(edges, r.q, Append(ordered, cur), r.indeg)

\* Mutant of topological_order: the length check and its fallback are missing.
topological_order_no_fallback(nodes, edges) ==
    LET node_ids == [i \in 1 .. Len(nodes) |-> nodes[i].id]
        indeg == InDegree(Range(node_ids), edges)
        q == SelectSeq(node_ids, LAMBDA nid : indeg[nid] = 0)
    IN  KahnLoop(edges, q, <<>>, indeg)

topological_order(nodes, edges) ==
    LET node_ids == [i \in 1 .. Len(nodes) |-> nodes[i].id]
        indeg == InDegree(Range(node_ids), edges)
        q == SelectSeq(node_ids, LAMBDA nid : indeg[nid] = 0)
        ordered == KahnLoop(edges, q, <<>>, indeg)
    IN  IF Len(ordered) # Len(node_ids) THEN node_ids ELSE ordered

\* chunks of two consecutive nodes
RECURSIVE PairChunks(_, _)
PairChunks(ordered, i) ==
    IF i > Len(ordered) THEN <<>>
    ELSE <<SubSeq(ordered, i, Min2(i + 1, Len(ordered)))>> \o PairChunks(ordered, i + 2)

\* Mutant of MergeTrailingSingleton: the chunks are left as paired.
MergeTrailingSingleton_left_as_paired(chunks) == chunks

\* if len(chunks) >= 2 and len(chunks[-1]) == 1: merge it into chunks[-2]
MergeTrailingSingleton(chunks) ==
    IF Len(chunks) >= 2 /\ Len(chunks[Len(chunks)]) = 1
    THEN [SubSeq(chunks, 1, Len(chunks) - 1)
            EXCEPT ![Len(chunks) - 1] = @ \o chunks[Len(chunks)]]
    ELSE chunks

\* by_id.get(node_id): the last node carrying that id
NodeById(nodes, node_id) ==
    nodes[CHOOSE i \in 1 .. Len(nodes) :
            /\ nodes[i].id = node_id
            /\ \A j \in (i + 1) .. Len(nodes) : nodes[j].id # node_id]

ChapterTitle(idx, chunk) ==
    LET seed == IF Len(chunk) >= 2
                THEN chunk[1].title \o " / " \o chunk[2].title
                ELSE chunk[1].title
    IN  "ch" \o ToString(idx) \o ": " \o seed

_build_chapters_from_ordered_nodes(nodes, ordered_node_ids) ==
    LET ids == {nodes[i].id : i \in 1 .. Len(nodes)}
        known == SelectSeq(ordered_node_ids, LAMBDA x : x \in ids)
        found == [i \in 1 .. Len(known) |-> NodeById(nodes, known[i])]
        ordered == IF found = <<>> THEN nodes ELSE found
        chunks == MergeTrailingSingleton(PairChunks(ordered, 1))
    IN  [idx \in 1 .. Len(chunks) |->
            [chapter_id |-> "c" \o ToString(idx),
             title |-> ChapterTitle(idx, chunks[idx]),
             node_ids |-> [k \in 1 .. Len(chunks[idx]) |-> chunks[idx][k].id]]]

_normalize_agenda(raw, topic) ==
    LET padded == PadNodes(ClampNodes(CollectNodes(raw.nodes, 1)))
        kept == KeepEdges(padded, raw.edges)
        nodes == IF padded = <<>> THEN FallbackNodes ELSE padded
        edges == IF padded = <<>> THEN FallbackEdges ELSE kept
        ordered_ids == topological_order(nodes, edges)
    IN  [topic |-> topic,
         nodes |-> nodes,
         edges |-> edges,
         ordered_node_ids |-> ordered_ids,
         chapters |-> _build_chapters_from_ordered_nodes(nodes, ordered_ids)]

\* pipeline.py _ordered_chapters: the chapters of the agenda restricted to
\* known node ids, without the chapters left empty; when none is left the
\* chapters are rebuilt from ordered_node_ids (or from all titled nodes).
_ordered_chapters(ag) ==
    LET ids == {ag.nodes[i].id : i \in 1 .. Len(ag.nodes)}
        kept == [idx \in 1 .. Len(ag.chapters) |->
                    [chapter_id |-> ag.chapters[idx].chapter_id,
                     title |-> ag.chapters[idx].title,
                     node_ids |-> SelectSeq(ag.chapters[idx].node_ids,
                                            LAMBDA x : x \in ids)]]
        out == SelectSeq(kept, LAMBDA c : c.node_ids # <<>>)
        known == SelectSeq(ag.ordered_node_ids, LAMBDA x : x \in ids)
        found == [i \in 1 .. Len(known) |-> NodeById(ag.nodes, known[i])]
        firsts == SelectSeq([i \in 1 .. Len(ag.nodes) |-> i],
                            LAMBDA i : \A j \in 1 .. (i - 1) : ag.nodes[j].id # ag.nodes[i].id)
        by_id_values == [k \in 1 .. Len(firsts) |-> NodeById(ag.nodes, ag.nodes[firsts[k]].id)]
        ordered_nodes == IF found = <<>> THEN by_id_values ELSE found
        chunks == MergeTrailingSingleton(PairChunks(ordered_nodes, 1))
    IN  IF out # <<>> THEN out
        ELSE [idx \in 1 .. Len(chunks) |->
                [chapter_id |-> "c" \o ToString(idx),
                 title |-> ChapterTitle(idx, chunks[idx]),
                 node_ids |-> [k \in 1 .. Len(chunks[idx]) |-> chunks[idx][k].id]]]

\* ---- bounded raw inputs ----
RawIds == {"", "n2", "n3"}
RawTitles == {"", "x", Topic \o "-background"}
RawNodeChoices == [id : RawIds, title : RawTitles]
Filler == [id |-> "", title |-> "y"]
FillerCounts == {0, MaxFiller \div 2, MaxFiller}
EdgeChoices == [from : {"n2", "n3"}, to : {"n2", "n3"}]
                 \cup {[from |-> "n2", to |-> "zz"]}

RawAgendas ==
    {[nodes |-> free \o [i \in 1 .. k |-> Filler], edges |-> es] :
        free \in SeqsUpTo(RawNodeChoices, MaxRawFree),
        k \in FillerCounts,
        es \in SeqsUpTo(EdgeChoices, MaxEdges)}


InitAgenda ==
    /\ ag_pc = "input"
    /\ ag_raw \in RawAgendas
    /\ agenda = EmptyAgenda
    /\ TimingIdle
    /\ JobIdle
    /\ StoreIdle
    /\ NoveltyIdle
    /\ GuardIdle

\* build_causal_agenda: the parsed model response is normalized.
NormalizeAgenda ==
    /\ ag_pc = "input"
    /\ ag_pc' = "normalized"
    /\ agenda' = _normalize_agenda(ag_raw, Topic)
    /\ UNCHANGED <<ag_raw, tmVars, jobVars, stVars, nvVars, gdVars>>

\* run_pipeline line 244: chapters = _ordered_chapters(agenda)
OrderChapters ==
    /\ ag_pc = "normalized"
    /\ ag_pc' = "chaptered"
    /\ agenda' = [agenda EXCEPT !.chapters = _ordered_chapters(agenda)]
    /\ UNCHANGED <<ag_raw, tmVars, jobVars, stVars, nvVars, gdVars>>

NextAgenda == NormalizeAgenda \/ OrderChapters

SpecAgenda == InitAgenda /\ [][NextAgenda]_vars

(***************************************************************************)
(* Claims about the agenda builder (checked under SpecAgenda)              *)
(***************************************************************************)
\* C9: for every raw node/edge input (empty, under-long, over-long),
\* _normalize_agenda returns between 5 and 7 nodes and an ordered_node_ids
\* list whose length equals the node count.
C9_NodeCountAndOrderLength ==
    ag_pc = "normalized" =>
        /\ Len(agenda.nodes) >= min_nodes
        /\ Len(agenda.nodes) <= max_nodes
        /\ Len(agenda.ordered_node_ids) = Len(agenda.nodes)

\* C9 witness: an over-long raw list with a cycle among the kept edges was
\* normalized (truncation and the insertion-order fallback both acted).
C9_Witness ==
    /\ ag_pc = "normalized"
    /\ Len(ag_raw.nodes) > max_nodes
    /\ Len(agenda.nodes) = max_nodes
    /\ Len(agenda.edges) = 2
    /\ agenda.edges[1].from = agenda.edges[2].to
    /\ agenda.edges[1].to = agenda.edges[2].from

\* The kept edges contain a directed cycle.
RECURSIVE ReachSet(_, _)
ReachSet(edges, S) ==
    LET T == S \cup {edges[i].to : i \in {k \in 1 .. Len(edges) : edges[k].from \in S}}
    IN  IF T = S THEN S ELSE ReachSet(edges, T)

HasCycle(edges) ==
    \E i \in 1 .. Len(edges) : edges[i].from \in ReachSet(edges, {edges[i].to})

AppearsBefore(order, u, v) ==
    \E i, j \in 1 .. Len(order) : i < j /\ order[i] = u /\ order[j] = v

\* C10: ordered_node_ids is a valid topological sort of the normalized
\* (nodes, edges): for every kept edge u -> v, u appears before v; when the
\* kept edges contain a cycle the result is the nodes in insertion order.
C10_ValidTopologicalSort ==
    ag_pc = "normalized" =>
        IF HasCycle(agenda.edges)
        THEN agenda.ordered_node_ids
                = [i \in 1 .. Len(agenda.nodes) |-> agenda.nodes[i].id]
        ELSE \A i \in 1 .. Len(agenda.edges) :
                AppearsBefore(agenda.ordered_node_ids,
                              agenda.edges[i].from, agenda.edges[i].to)

\* C11: when the raw input holds no usable titled node, the agenda builder
\* returns the 4-node fallback agenda of the topic: nodes n1..n4 chained by
\* the edges n1->n2, n2->n3, n3->n4.
C11_EmptyInputGivesFallbackAgenda ==
    (ag_pc = "normalized" /\ CollectNodes(ag_raw.nodes, 1) = <<>>)
        => /\ agenda.nodes = FallbackNodes
           /\ agenda.edges = FallbackEdges

RECURSIVE ConcatAll(_)
ConcatAll(seqs) == IF seqs = <<>> THEN <<>> ELSE Head(seqs) \o ConcatAll(Tail(seqs))

\* C12: the chapters pair consecutive nodes of the order: with at least two
\* chapters no chapter has exactly one node, every chapter is non-empty, and
\* the chapters' node_ids concatenated are the order; this holds for the
\* chapters _normalize_agenda builds and for those _ordered_chapters hands to
\* the body loop.
C12_ChaptersPairTheOrder ==
    ag_pc \in {"normalized", "chaptered"} =>
        LET ch == agenda.chapters
        IN  /\ Len(ch) >= 2 => \A i \in 1 .. Len(ch) : Len(ch[i].node_ids) # 1
            /\ \A i \in 1 .. Len(ch) : ch[i].node_ids # <<>>
            /\ \A i \in 1 .. Len(ch) :
                    Len(ch[i].node_ids) <= 3
                    /\ (Len(ch[i].node_ids) = 3 => i = Len(ch))
            /\ ConcatAll([i \in 1 .. Len(ch) |-> ch[i].node_ids]) = agenda.ordered_node_ids

\* An odd number of nodes: the trailing singleton went into the chapter before.
C12_Witness ==
    /\ ag_pc = "chaptered"
    /\ Len(agenda.nodes) = 5
    /\ Len(agenda.chapters) = 2
    /\ Len(agenda.chapters[2].node_ids) = 3

(***************************************************************************)
(* pipeline.py : merge of per-line timings (_consume_completed_tts) and    *)
(* global timing reconstruction (end of run_pipeline); the providers'      *)
(* line_timings / audio_ms (synthesizer.py, tts_voicevox.py)               *)
(***************************************************************************)
MaxLines == 3       \* script lines per section
MaxDur == 1         \* duration of one synthesized line, in ms

\* A dict key that is not present.
Absent == -1

TimingSectionIndexes == {0, 1}

Durations == 1 .. MaxDur

NewLine(i) ==
    [text |-> "L" \o ToString(i), start_ms |-> Absent, end_ms |-> Absent,
     global_start_ms |-> Absent, global_end_ms |-> Absent]

NewSection(k, n) ==
    [section_index |-> k, status |-> "generated",
     lines |-> [i \in 1 .. n |-> NewLine(i)],
     audio_ms |-> Absent, global_start_ms |-> Absent, global_end_ms |-> Absent]

RECURSIVE SumSeq(_)
SumSeq(s) == IF s = <<>> THEN 0 ELSE Head(s) + SumSeq(Tail(s))

\* synthesize_audio_incremental: dur[i] = 0 stands for a line that yields no
\* samples and is skipped; every rendered line gets the next contiguous span.
RECURSIVE KokoroLineTimings(_, _, _, _)
KokoroLineTimings(script, dur, i, cursor) ==
    IF i > Len(script) THEN <<>>
    ELSE IF dur[i] = 0 THEN KokoroLineTimings(script, dur, i + 1, cursor)
    ELSE << [text |-> script[i].text, start_ms |-> cursor,
             end_ms |-> cursor + dur[i]] >>
         \o KokoroLineTimings(script, dur, i + 1, cursor + dur[i])

\* The stats of a Kokoro run that wrote an output file.
KokoroStats(script) ==
    {[line_timings |-> KokoroLineTimings(script, dur, 1, 0),
      audio_ms |-> SumSeq(dur)] :
        dur \in {d \in [1 .. Len(script) -> {0} \cup Durations] :
                    \E i \in 1 .. Len(script) : d[i] > 0}}

\* VoiceVoxProvider.synthesize_script: the audio is synthesized from the whole
\* section text; the optional second pass times the lines one by one and stops
\* at the first line that fails (k lines timed, k = 0 without second pass).
VoiceVoxStats(script) ==
    {[line_timings |-> KokoroLineTimings(SubSeq(script, 1, Len(dur)), dur, 1, 0),
      audio_ms |-> a] :
        dur \in UNION {[1 .. k -> Durations] : k \in 0 .. Len(script)},
        a \in Durations}

\* Variant of MergeLineTimings: the lines without a timing get the defaults.
MergeLineTimings_all_lines(section_lines, line_timings) ==
    [i \in 1 .. Len(section_lines) |->
        IF i <= Len(line_timings)
        THEN [section_lines[i] EXCEPT !.start_ms = line_timings[i].start_ms,
                                      !.end_ms = line_timings[i].end_ms]
        ELSE [section_lines[i] EXCEPT !.start_ms = 0, !.end_ms = 0]]

\* lines 595-607: index-aligned copy of the timings, up to the shorter length
MergeLineTimings(section_lines, line_timings) ==
    [i \in 1 .. Len(section_lines) |->
        IF i <= Len(line_timings)
        THEN [section_lines[i] EXCEPT !.start_ms = line_timings[i].start_ms,
                                      !.end_ms = line_timings[i].end_ms]
        ELSE section_lines[i]]

\* lines 594-610 for one successfully synthesized section
MergeStats(section_record, stats_out) ==
    [section_record EXCEPT
        !.status = "ready",
        !.lines = MergeLineTimings(@, stats_out.line_timings),
        !.audio_ms = IF stats_out.audio_ms > 0 THEN stats_out.audio_ms ELSE @]

\* int(d.get(key, 0) or 0)
IntOr0(v) == IF v = Absent THEN 0 ELSE v

LineMaxEnd(lines) ==
    LET ends == {IntOr0(lines[i].end_ms) : i \in 1 .. Len(lines)} \cup {0}
    IN  CHOOSE m \in ends : \A e \in ends : e <= m

\* Mutant of SectionLength: the recorded audio duration is ignored.
SectionLength_line_end_only(sec) == LineMaxEnd(sec.lines)

\* sec_len = sec_audio_ms if sec_audio_ms > 0 else max_end
SectionLength(sec) ==
    IF IntOr0(sec.audio_ms) > 0 THEN IntOr0(sec.audio_ms) ELSE LineMaxEnd(sec.lines)

GlobalLines(lines, cursor_ms) ==
    [i \in 1 .. Len(lines) |->
        [lines[i] EXCEPT
            !.global_start_ms = cursor_ms + IntOr0(lines[i].start_ms),
            !.global_end_ms = cursor_ms + Max2(IntOr0(lines[i].end_ms),
                                               IntOr0(lines[i].start_ms))]]

\* the loop over ordered_sections, from section i on
RECURSIVE GlobalTimingLoop(_, _, _)
GlobalTimingLoop(ordered_sections, i, cursor_ms) ==
    IF i > Len(ordered_sections) THEN <<>>
    ELSE LET sec == ordered_sections[i]
             len == Max2(SectionLength(sec), 0)
         IN  << [sec EXCEPT !.lines = GlobalLines(@, cursor_ms),
                            !.global_start_ms = cursor_ms,
                            !.global_end_ms = cursor_ms + len] >>
             \o GlobalTimingLoop(ordered_sections, i + 1, cursor_ms + len)

\* sorted(transcript_sections, key=section_index): a stable insertion sort
RECURSIVE SortBySectionIndex(_)
SortBySectionIndex(secs) ==
    IF secs = <<>> THEN <<>>
    ELSE LET rest == SortBySectionIndex(SubSeq(secs, 1, Len(secs) - 1))
             last == secs[Len(secs)]
             before == SelectSeq(rest, LAMBDA x : x.section_index <= last.section_index)
             after == SelectSeq(rest, LAMBDA x : x.section_index > last.section_index)
         IN  before \o <<last>> \o after

InitTiming ==
    /\ tm_pc = "merge"
    /\ \E n \in [TimingSectionIndexes -> 1 .. MaxLines] :
          tm_sections = [i \in 1 .. Cardinality(TimingSectionIndexes) |->
                            NewSection(i - 1, n[i - 1])]
    /\ tm_stats = <<>>
    /\ AgendaIdle
    /\ JobIdle
    /\ StoreIdle
    /\ NoveltyIdle
    /\ GuardIdle

\* A synthesis task of section k completed with an output file.
MergeSynthesisResult(k) ==
    /\ tm_pc = "merge"
    /\ tm_sections[k].status = "generated"
    /\ \E stats_out \in KokoroStats(tm_sections[k].lines)
                        \cup VoiceVoxStats(tm_sections[k].lines) :
          /\ tm_sections' = [tm_sections EXCEPT ![k] = MergeStats(@, stats_out)]
          /\ tm_stats' = <<[section |-> k, stats_out |-> stats_out]>>
    /\ UNCHANGED <<tm_pc, agVars, jobVars, stVars, nvVars, gdVars>>

\* The drain is over (sections whose task failed stay "generated").
ReconstructGlobalTiming ==
    /\ tm_pc = "merge"
    /\ tm_pc' = "done"
    /\ tm_sections' = GlobalTimingLoop(SortBySectionIndex(tm_sections), 1, 0)
    /\ UNCHANGED <<tm_stats, agVars, jobVars, stVars, nvVars, gdVars>>

NextTiming ==
    \/ \E k \in 1 .. Cardinality(TimingSectionIndexes) : MergeSynthesisResult(k)
    \/ ReconstructGlobalTiming

SpecTiming == InitTiming /\ [][NextTiming]_vars

(***************************************************************************)
(* Claims about timing (checked under SpecTiming)                          *)
(***************************************************************************)
\* All transcript lines in section_index order and line order.
RECURSIVE FlattenLines(_)
FlattenLines(secs) ==
    IF secs = <<>> THEN <<>> ELSE Head(secs).lines \o FlattenLines(Tail(secs))

\* C2: after global timing reconstruction, walking all transcript lines in
\* section_index order and line order, global_start_ms never decreases and
\* every line has global_end_ms >= global_start_ms.
C2_GlobalStartMonotonic ==
    tm_pc = "done" =>
        LET all == FlattenLines(SortBySectionIndex(tm_sections))
        IN  /\ \A i \in 1 .. Len(all) : all[i].global_end_ms >= all[i].global_start_ms
            /\ \A i \in 1 .. (Len(all) - 1) :
                  all[i].global_start_ms <= all[i + 1].global_start_ms

(***************************************************************************)
(* job_store.py : InMemoryJobStore (create / get / update)                 *)
(***************************************************************************)
\* Python's None for a string argument or field.  An optional dict is <<>>
\* (None) or <<d>> (the dict d).
None == "None"

EmptyDict == [k \in {} |-> 0]

\* dict.update(new): a shallow merge, the keys of new win.
DictUpdate(old, new) ==
    [k \in DOMAIN old \cup DOMAIN new |-> IF k \in DOMAIN new THEN new[k] ELSE old[k]]

\* InMemoryJobStore.create (the time stamps are left out)
JobStoreCreate ==
    [status |-> "queued", stage |-> "queued", error |-> None,
     result |-> <<>>, metrics |-> EmptyDict]

\* Mutant of JobStoreUpdate: the record is rebuilt from the arguments, so the
\* metrics that are not passed are dropped.
JobStoreUpdate_replace_metrics(record, status, stage, error, result, metrics) ==
    [status |-> IF status # None THEN status ELSE record.status,
     stage |-> IF stage # None THEN stage ELSE record.stage,
     error |-> IF error # None THEN error ELSE record.error,
     result |-> IF result # <<>> THEN result ELSE record.result,
     metrics |-> IF metrics # <<>> THEN metrics[1] ELSE EmptyDict]

\* InMemoryJobStore.update, under the store's lock
JobStoreUpdate(record, status, stage, error, result, metrics) ==
    [status |-> IF status # None THEN status ELSE record.status,
     stage |-> IF stage # None THEN stage ELSE record.stage,
     error |-> IF error # None THEN error ELSE record.error,
     result |-> IF result # <<>> THEN result ELSE record.result,
     metrics |-> IF metrics # <<>> THEN DictUpdate(record.metrics, metrics[1])
                 ELSE record.metrics]

(***************************************************************************)
(* main.py : _execute_job.on_stage ;  pipeline.py : run_pipeline.set_stage *)
(***************************************************************************)
\* on_stage for every stage but final_audio_completed (main.py line 101):
\* storage.update_job(job_id, stage=stage, metrics=payload or None)
on_stage(record, stage, metrics_update) ==
    JobStoreUpdate(record, None, stage, None, <<>>,
                   IF DOMAIN metrics_update = {} THEN <<>> ELSE <<metrics_update>>)

TtsPayload ==
    [tts_provider_requested |-> "kokoro", tts_provider_used |-> "kokoro",
     tts_fallback_used |-> FALSE]

set_stage(record, stage, metrics_update) ==
    on_stage(record, stage, DictUpdate(metrics_update, TtsPayload))

Ev(stage, metrics_update) == [stage |-> stage, metrics |-> metrics_update]

\* Consecutive set_stage calls of one step of run_pipeline.
RECURSIVE EmitStages(_, _)
EmitStages(record, events) ==
    IF events = <<>> THEN record
    ELSE EmitStages(set_stage(record, Head(events).stage, Head(events).metrics),
                    Tail(events))

StageNames(events) == {events[i].stage : i \in 1 .. Len(events)}

(***************************************************************************)
(* pipeline.py : run_pipeline                                              *)
(***************************************************************************)
NumNodes == 2       \* len(ordered_nodes): the body sections of the agenda

TTS_MAX_WORKERS == 2

SectionIndexes == 0 .. (NumNodes + 1)

conclusion_index == NumNodes + 1

\* How a synthesis task can have ended: future.result() raises, or the task
\* returned and its output file is missing, or the file is there.
TaskOutcomes == {"raised", "nofile", "ok"}

\* Exception messages of run_pipeline and _execute_job.
IntroEmptyMsg == "Failed to generate intro script."
NoArticlesMsg == "No articles found for this topic. Try broader keywords or retry later."
NoSelectionMsg == "No articles selected by filter stage."
NoSourcesMsg == "Failed to prepare source texts for script generation."
NoChunksMsg == "No synthesized audio chunks were produced."
CombineMsg == "Sample rate mismatch while combining audio"
NoFinalFileMsg == "Audio finalize step did not create output file."
TimeoutMsg == "Job timed out after 900s"

\* f"{idx:02d}"
Pad2(i) == IF i < 10 THEN "0" \o ToString(i) ELSE ToString(i)

\* f"{stem}_{episode_id}"
Stem == Topic \o "_ep"

filename == Stem \o ".wav"

preview_filename == Stem \o "_intro.wav"

conclusion_filename == Stem \o "_conclusion.wav"

\* Variant of section_filename: the index is not part of the name.
section_filename_without_index(idx) == Stem \o "_sec.wav"

section_filename(idx) == Stem \o "_sec" \o Pad2(idx) \o ".wav"

\* os.path.join(output_dir, name)
PathOf(name) == "audio_output/" \o name

\* meta["section_filename"] of the task submitted for section_index idx
MetaFilename(idx) ==
    IF idx = 0 THEN preview_filename
    ELSE IF idx = conclusion_index THEN conclusion_filename
    ELSE section_filename(idx)

\* meta["ready_stage_name"]
ReadyStageName(idx) ==
    IF idx = 0 THEN "intro_ready"
    ELSE IF idx = conclusion_index THEN "conclusion_ready"
    ELSE "section_ready"

\* ---- ready_chunks_by_index: a dict, kept in insertion order ----
DictKeys(d) == {d[i].section_index : i \in 1 .. Len(d)}

DictGet(d, k) == d[CHOOSE i \in 1 .. Len(d) : d[i].section_index = k]

\* d[k] = (name, path): a present key keeps its place, a new key goes last
DictSet(d, k, name, path) ==
    LET item == [section_index |-> k, filename |-> name, path |-> path]
    IN  IF k \in DictKeys(d)
        THEN [i \in 1 .. Len(d) |-> IF d[i].section_index = k THEN item ELSE d[i]]
        ELSE Append(d, item)

RECURSIVE SortedSeq(_)
SortedSeq(S) ==
    IF S = {} THEN <<>>
    ELSE LET m == CHOOSE x \in S : \A y \in S : x <= y
         IN  <<m>> \o SortedSeq(S \ {m})

\* Mutant of sorted_keys: the keys in the dict's own (completion) order.
keys_in_completion_order(d) == [i \in 1 .. Len(d) |-> d[i].section_index]

\* sorted(ready_chunks_by_index.keys())
sorted_keys(d) == SortedSeq(DictKeys(d))

\* ordered_pairs = [ready_chunks_by_index[k] for k in sorted(...)]
ordered_pairs(d) ==
    LET ks == sorted_keys(d) IN [i \in 1 .. Len(ks) |-> DictGet(d, ks[i])]

\* Variant of _progress_payload: the generated sections are reported as
\* synthesized.
_progress_payload_generated_as_synthesized(frame) ==
    [total_sections |-> frame.total_sections,
     generated_sections |-> frame.generated_sections_count,
     synthesized_sections |-> frame.generated_sections_count]

\* _progress_payload (progress_ratio, a rounded float, is left out)
_progress_payload(frame) ==
    [total_sections |-> frame.total_sections,
     generated_sections |-> frame.generated_sections_count,
     synthesized_sections |-> frame.synthesized_sections]

\* tts_workers = 1 if tts_serial_mode else max(1, TTS_MAX_WORKERS)
tts_workers == IF env.tts_serial_mode THEN 1 ELSE Max2(1, TTS_MAX_WORKERS)

\* ThreadPoolExecutor.submit on the section pool: the task runs at once when a
\* worker is free and waits in the queue otherwise.
SubmitToPool(futs, idx) ==
    [futs EXCEPT ![idx] =
        IF Cardinality({k \in 1 .. conclusion_index : futs[k] = "running"}) < tts_workers
        THEN "running" ELSE "queued"]

\* A worker that finished its task takes the oldest queued one.
WorkerTakesNext(futs) ==
    LET queued == {k \in 1 .. conclusion_index : futs[k] = "queued"}
    IN  IF queued = {} THEN futs
        ELSE [futs EXCEPT ![CHOOSE k \in queued : \A j \in queued : k <= j] = "running"]

InitFrame ==
    [pc |-> "not_started", ret |-> "", after |-> "", done |-> {},
     pre_research_items |-> "unset", articles |-> "unset", selected |-> "unset",
     node_pos |-> 1, body_generated |-> 0,
     generated_sections_count |-> 0, synthesized_sections |-> 0,
     total_sections |-> 0, intro_failed |-> FALSE,
     pending_tts |-> {}, transcript_sections |-> <<>>,
     ready_chunks_by_index |-> <<>>,
     ready_chunk_filenames |-> <<>>, ready_chunk_paths |-> <<>>,
     metrics |-> [tts_provider_requested |-> "kokoro", tts_provider_used |-> "kokoro"],
     final_audio_ready |-> FALSE, exc |-> None, result |-> <<>>]

\* input_paths: the chunk files handed to combine_audio_files, which reads
\* them in that order (skipping a file it cannot read) and concatenates them.
InitFinalize ==
    [pc |-> "not_started", ok |-> FALSE, error_message |-> None, current_result |-> <<>>,
     input_paths |-> <<>>]

Init ==
    /\ env \in [tts_serial_mode : BOOLEAN, defer_finalize : BOOLEAN]
    /\ pl = InitFrame
    /\ futures = [k \in SectionIndexes |-> "none"]
    /\ fin = InitFinalize
    /\ rn = [pc |-> "created", outcome |-> None]
    /\ job = JobStoreCreate
    /\ stages_emitted = {}
    /\ AgendaIdle
    /\ TimingIdle
    /\ StoreIdle
    /\ NoveltyIdle
    /\ GuardIdle

\* raise RuntimeError(msg) out of run_pipeline
Raise(frame, msg) == [frame EXCEPT !.pc = "raised", !.exc = msg]

\* One step of run_pipeline that calls set_stage for `events` and ends in frame.
PipelineStep(events, frame) ==
    /\ pl' = frame
    /\ job' = EmitStages(job, events)
    /\ stages_emitted' = stages_emitted \cup StageNames(events)

\* Mutant of ExceptionLeaves: intro_executor is used as a context manager, so
\* an exception leaves run_pipeline only after the intro task has finished.
ExceptionLeaves_after_intro_join(futs) == futs[0] # "running"

\* intro_executor is a bare ThreadPoolExecutor (lines 385-386), not a `with`
\* block: an exception raised before the section pool exists leaves
\* run_pipeline without waiting for the intro task.
ExceptionLeaves(futs) == TRUE

\* ---- _execute_job: start ----
ExecuteJobStart ==
    /\ rn.pc = "created"
    /\ rn' = [rn EXCEPT !.pc = "waiting"]
    /\ job' = JobStoreUpdate(job, "running", "running", None, <<>>, <<>>)
    /\ pl' = [pl EXCEPT !.pc = "pre_research"]
    /\ UNCHANGED <<env, futures, fin, stages_emitted, agVars, tmVars, stVars, nvVars, gdVars>>

\* ---- 1) pre-research ----
PreResearch ==
    /\ pl.pc = "pre_research"
    /\ \E items \in {"empty", "titles_only", "with_snippets"} :
          PipelineStep(
            << Ev("pre_researching", EmptyDict),
               Ev("pre_research_completed",
                  [pre_research_count |-> IF items = "empty" THEN 0 ELSE 1]) >>,
            [pl EXCEPT !.pc = "agenda", !.pre_research_items = items])
    /\ UNCHANGED <<env, futures, fin, rn, agVars, tmVars, stVars, nvVars, gdVars>>

\* ---- 2) agenda ----
AgendaPlanning ==
    /\ pl.pc = "agenda"
    /\ PipelineStep(
          << Ev("agenda_planning", EmptyDict),
             Ev("agenda_ready", [agenda_node_count |-> NumNodes]) >>,
          [pl EXCEPT !.pc = "intro",
                     !.metrics = DictUpdate(@, [agenda_node_count |-> NumNodes])])
    /\ UNCHANGED <<env, futures, fin, rn, agVars, tmVars, stVars, nvVars, gdVars>>

\* ---- 3) intro generation, 4) intro synthesis submitted ----
GenerateIntro ==
    /\ pl.pc = "intro"
    /\ \E nonempty \in BOOLEAN :
          IF ~nonempty
          THEN /\ PipelineStep(
                    << Ev("generating_intro", EmptyDict),
                       Ev("intro_generated", [intro_lines |-> 0]) >>,
                    Raise(pl, IntroEmptyMsg))
               /\ UNCHANGED futures
          ELSE /\ PipelineStep(
                    << Ev("generating_intro", EmptyDict),
                       Ev("intro_generated", [intro_lines |-> 1]),
                       Ev("synthesizing_intro",
                          [section_index |-> 0,
                           preview_audio_filename |-> preview_filename]) >>,
                    [pl EXCEPT !.pc = "search",
                               !.transcript_sections =
                                    <<[section_index |-> 0, status |-> "generated"]>>,
                               !.generated_sections_count = 1,
                               !.total_sections = NumNodes + 2])
               /\ futures' = [futures EXCEPT ![0] = "running"]
    /\ UNCHANGED <<env, fin, rn, agVars, tmVars, stVars, nvVars, gdVars>>

\* ---- 5) search, filter, extraction while the intro is synthesizing ----
SearchNews ==
    /\ pl.pc = "search"
    /\ \E articles \in {"empty", "some"} :
          PipelineStep(
            << Ev("searching", EmptyDict),
               Ev("search_completed",
                  [search_count |-> IF articles = "empty" THEN 0 ELSE 1]) >>,
            [pl EXCEPT !.pc = "check_articles", !.articles = articles])
    /\ UNCHANGED <<env, futures, fin, rn, agVars, tmVars, stVars, nvVars, gdVars>>

\* if not articles and not pre_research_items: raise RuntimeError(...)
CheckArticles ==
    /\ pl.pc = "check_articles"
    /\ IF pl.articles = "empty" /\ pl.pre_research_items = "empty"
       THEN /\ ExceptionLeaves(futures)
            /\ pl' = Raise(pl, NoArticlesMsg)
       ELSE pl' = [pl EXCEPT !.pc = "filter"]
    /\ UNCHANGED <<env, futures, fin, rn, job, stages_emitted, agVars, tmVars, stVars, nvVars, gdVars>>

Filter ==
    /\ pl.pc = "filter"
    /\ \E selected \in (IF pl.articles = "empty" THEN {"empty"} ELSE {"empty", "some"}) :
          LET events == << Ev("filtering", EmptyDict),
                           Ev("filter_completed",
                              [selected_count |-> IF selected = "empty" THEN 0 ELSE 1]) >>
          IN  IF pl.articles = "some" /\ selected = "empty"
              THEN /\ ExceptionLeaves(futures)
                   /\ PipelineStep(events,
                        Raise([pl EXCEPT !.selected = selected], NoSelectionMsg))
              ELSE PipelineStep(events,
                        [pl EXCEPT !.pc = "extract", !.selected = selected])
    /\ UNCHANGED <<env, futures, fin, rn, agVars, tmVars, stVars, nvVars, gdVars>>

\* After source_context is built the three lists steer nothing any more; the
\* frame drops them.  The intro future enters pending_tts here (line 471).
Extract ==
    /\ pl.pc = "extract"
    /\ \E full_texts \in (IF pl.selected = "some" THEN {"empty", "some"} ELSE {"empty"}) :
          LET events == << Ev("extracting", EmptyDict),
                           Ev("extract_completed",
                              [extracted_count |-> IF full_texts = "empty" THEN 0 ELSE 1]) >>
          IN  IF full_texts = "empty" /\ pl.pre_research_items # "with_snippets"
              THEN /\ ExceptionLeaves(futures)
                   /\ PipelineStep(events, Raise(pl, NoSourcesMsg))
              ELSE PipelineStep(events,
                        [pl EXCEPT !.pc = IF NumNodes >= 1 THEN "gen_body"
                                          ELSE "gen_conclusion",
                                   !.pre_research_items = "unset",
                                   !.articles = "unset",
                                   !.selected = "unset",
                                   !.pending_tts = {0}])
    /\ UNCHANGED <<env, futures, fin, rn, agVars, tmVars, stVars, nvVars, gdVars>>

\* ---- _consume_completed_tts: one completed future ----
\* Mutant of MarkIntroFailed: a failed intro task is only logged.
MarkIntroFailed_only_logged(frame, idx) == frame

\* Mutant of MarkIntroFailed: the failure of any section sets the flag.
MarkIntroFailed_any_section(frame, idx) == [frame EXCEPT !.intro_failed = TRUE]

\* if int(meta["section_index"]) == 0: intro_failed = True
MarkIntroFailed(frame, idx) ==
    IF idx = 0 THEN [frame EXCEPT !.intro_failed = TRUE] ELSE frame

\* Mutant of SetStatus: the section record is left as it is.
SetStatus_unchanged(sections, idx, status) == sections

\* meta["section_record"]["status"] = "ready"
SetStatus(sections, idx, status) ==
    [i \in 1 .. Len(sections) |->
        IF sections[i].section_index = idx
        THEN [sections[i] EXCEPT !.status = status] ELSE sections[i]]

\* The body of `for future in done` for the future of section idx whose task
\* ended with outcome: "raised" (future.result() raises), "nofile" (the task
\* returned but section_path does not exist) or "ok".  The result is the new
\* frame and the set_stage calls made.  (Cache counters, provider and voice
\* names, ttfa_seconds and the line timings are left out of the frame; the
\* transcript_sections entry of the payloads aliases the section records and
\* is left out as well.)
ConsumeFuture(frame, idx, outcome) ==
    LET popped == [frame EXCEPT !.pending_tts = @ \ {idx}]
    IN  IF outcome # "ok"
        THEN [frame |-> MarkIntroFailed(popped, idx), events |-> <<>>]
        ELSE
          LET by_index == DictSet(popped.ready_chunks_by_index, idx,
                                  MetaFilename(idx), PathOf(MetaFilename(idx)))
              pairs == ordered_pairs(by_index)
              names == [i \in 1 .. Len(pairs) |-> pairs[i].filename]
              paths == [i \in 1 .. Len(pairs) |-> pairs[i].path]
              counted ==
                [popped EXCEPT
                    !.synthesized_sections =
                        IF idx \in DictKeys(popped.ready_chunks_by_index) THEN @ ELSE @ + 1,
                    !.transcript_sections = SetStatus(@, idx, "ready"),
                    !.ready_chunks_by_index = by_index,
                    !.ready_chunk_filenames = names,
                    !.ready_chunk_paths = paths]
              progress == _progress_payload(counted)
              ready ==
                [counted EXCEPT
                    !.metrics = DictUpdate(@, [ready_chunk_count |-> Len(names),
                                               ready_audio_chunks |-> names,
                                               progress |-> progress])]
          IN  [frame |-> ready,
               events |->
                 IF ReadyStageName(idx) = "intro_ready"
                 THEN << Ev(IF ~ready.intro_failed THEN "intro_ready" ELSE "intro_failed",
                            [preview_audio_filename |-> preview_filename,
                             intro_failed |-> ready.intro_failed,
                             ready_audio_chunks |-> names,
                             ready_chunk_count |-> Len(names),
                             progress |-> progress]) >>
                 ELSE << Ev(ReadyStageName(idx),
                            [section_index |-> idx,
                             section_filename |-> MetaFilename(idx),
                             ready_audio_chunks |-> names,
                             ready_chunk_count |-> Len(names),
                             progress |-> progress]) >> ]

\* Variant of WaitDone: wait() never reports a finished future.
WaitDone_reports_nothing == {}

\* wait(set(pending_tts.keys()), ..., return_when=FIRST_COMPLETED): the
\* futures of pending_tts that are finished when wait() looks.
WaitDone == {k \in pl.pending_tts : futures[k] = "done"}

\* _consume_completed_tts(block_until_one=False): wait() with timeout 0
ConsumeCompletedTts ==
    /\ pl.pc = "consume"
    /\ pl' = IF WaitDone = {} THEN [pl EXCEPT !.pc = pl.ret]
             ELSE [pl EXCEPT !.pc = "consume_iter", !.done = WaitDone, !.after = pl.ret]
    /\ UNCHANGED <<env, futures, fin, rn, job, stages_emitted, agVars, tmVars, stVars, nvVars, gdVars>>

\* Mutant of DrainPendingTts: one poll instead of the loop.
DrainPendingTts_one_poll ==
    /\ pl.pc = "drain"
    /\ pl' = IF WaitDone = {} THEN [pl EXCEPT !.pc = pl.ret]
             ELSE [pl EXCEPT !.pc = "consume_iter", !.done = WaitDone, !.after = pl.ret]
    /\ UNCHANGED <<env, futures, fin, rn, job, stages_emitted, agVars, tmVars, stVars, nvVars, gdVars>>

\* `while pending_tts: _consume_completed_tts(block_until_one=True)`: a wait()
\* that times out after 0.5 s with nothing done is repeated and changes
\* nothing, so the step is taken when the loop ends or a future is done.
DrainPendingTts ==
    /\ pl.pc = "drain"
    /\ pl.pending_tts = {} \/ WaitDone # {}
    /\ pl' = IF pl.pending_tts = {} THEN [pl EXCEPT !.pc = pl.ret]
             ELSE [pl EXCEPT !.pc = "consume_iter", !.done = WaitDone, !.after = "drain"]
    /\ UNCHANGED <<env, futures, fin, rn, job, stages_emitted, agVars, tmVars, stVars, nvVars, gdVars>>

\* `for future in done`: one future per step, in the set's iteration order.
\* future.result() and os.path.exists(section_path) show here how the task
\* ended; the future keeps "ok" or "failed".
ConsumeFutureStep ==
    /\ pl.pc = "consume_iter"
    /\ \E idx \in pl.done, outcome \in TaskOutcomes :
          LET r == ConsumeFuture(pl, idx, outcome)
              rest == pl.done \ {idx}
          IN  /\ PipelineStep(r.events,
                    [r.frame EXCEPT !.done = rest,
                                    !.pc = IF rest = {} THEN pl.after ELSE "consume_iter"])
              /\ futures' = [futures EXCEPT ![idx] = IF outcome = "ok" THEN "ok" ELSE "failed"]
    /\ UNCHANGED <<env, fin, rn, agVars, tmVars, stVars, nvVars, gdVars>>

\* ---- synthesize_script running in a worker thread ----
TaskFinish ==
    /\ \E idx \in SectionIndexes :
          /\ futures[idx] = "running"
          /\ futures' = IF idx = 0 THEN [futures EXCEPT ![0] = "done"]
                        ELSE WorkerTakesNext([futures EXCEPT ![idx] = "done"])
    /\ UNCHANGED <<env, pl, fin, rn, job, stages_emitted, agVars, tmVars, stVars, nvVars, gdVars>>

\* Mutant of AfterSubmit: serial mode does not drain after a submission.
AfterSubmit_no_drain(serial) == "consume"

\* Mutant of AfterSubmit: every submission is followed by the wait loop.
AfterSubmit_always_drain(serial) == "drain"

\* lines 859-863: where run_pipeline goes after the submission of a body
\* section: `while pending_tts: _consume_completed_tts(block_until_one=True)`
\* in serial mode, one _consume_completed_tts(block_until_one=False) otherwise
AfterSubmit(serial) == IF serial THEN "drain" ELSE "consume"

\* ---- 6) one agenda node of the body loop ----
\* (The topicality and novelty rewrites change the text of the section only.)
GenerateBodySection ==
    /\ pl.pc = "gen_body"
    /\ \E nonempty \in BOOLEAN :
          LET idx == pl.body_generated + 1
              next_pc == IF pl.node_pos < NumNodes THEN "gen_body" ELSE "gen_conclusion"
              generating == Ev("generating_section", [section_index |-> idx])
          IN  IF ~nonempty
              THEN /\ PipelineStep(<<generating>>,
                        [pl EXCEPT !.pc = "consume", !.ret = next_pc,
                                   !.node_pos = @ + 1])
                   /\ UNCHANGED futures
              ELSE
                LET generated ==
                      [pl EXCEPT
                          !.body_generated = @ + 1,
                          !.generated_sections_count = @ + 1,
                          !.transcript_sections =
                              Append(@, [section_index |-> idx, status |-> "generated"]),
                          !.node_pos = @ + 1]
                    progress == _progress_payload(generated)
                IN  /\ PipelineStep(
                          << generating,
                             Ev("section_generated",
                                [section_index |-> idx, progress |-> progress]),
                             Ev("synthesizing_section",
                                [section_index |-> idx,
                                 section_filename |-> section_filename(idx)]) >>,
                          [generated EXCEPT
                              !.metrics = DictUpdate(@, [progress |-> progress]),
                              !.pending_tts = @ \cup {idx},
                              !.pc = AfterSubmit(env.tts_serial_mode),
                              !.ret = next_pc])
                    /\ futures' = SubmitToPool(futures, idx)
    /\ UNCHANGED <<env, fin, rn, agVars, tmVars, stVars, nvVars, gdVars>>

\* ---- conclusion, then the final `while pending_tts` of the with block ----
GenerateConclusion ==
    /\ pl.pc = "gen_conclusion"
    /\ \E nonempty \in BOOLEAN :
          LET generating == Ev("generating_conclusion", EmptyDict)
          IN  IF ~nonempty
              THEN /\ PipelineStep(<<generating>>,
                        [pl EXCEPT !.pc = "drain", !.ret = "finalize",
                                   !.metrics = DictUpdate(@, [body_sections |-> pl.body_generated])])
                   /\ UNCHANGED futures
              ELSE
                LET generated ==
                      [pl EXCEPT
                          !.generated_sections_count = @ + 1,
                          !.transcript_sections =
                              Append(@, [section_index |-> conclusion_index,
                                         status |-> "generated"])]
                    progress == _progress_payload(generated)
                IN  /\ PipelineStep(
                          << generating,
                             Ev("conclusion_generated", [progress |-> progress]),
                             Ev("synthesizing_conclusion",
                                [section_index |-> conclusion_index,
                                 section_filename |-> conclusion_filename]) >>,
                          [generated EXCEPT
                              !.metrics = DictUpdate(@, [body_sections |-> pl.body_generated,
                                                         progress |-> progress]),
                              !.pending_tts = @ \cup {conclusion_index},
                              !.pc = "drain",
                              !.ret = "finalize"])
                    /\ futures' = SubmitToPool(futures, conclusion_index)
    /\ UNCHANGED <<env, fin, rn, agVars, tmVars, stVars, nvVars, gdVars>>

\* ---- after the drain: lines 945-997 ----
\* Mutant of NoChunksProduced: the check of line 948 is missing.
NoChunksProduced_unchecked(paths) == FALSE

\* if not ready_chunk_paths
NoChunksProduced(paths) == paths = <<>>

\* combine_audio_files followed by os.path.exists(output_path): it raises when
\* no chunk can be read or the sample rates differ ("raised"), and the file
\* may be missing afterwards ("nofile").
CombineOutcomes(paths) ==
    IF paths = <<>> THEN {"raised"} ELSE {"ok", "raised", "nofile"}

\* Mutant of CombineInput: the chunks in the order their tasks completed.
CombineInput_completion_order(frame) ==
    [i \in 1 .. Len(frame.ready_chunks_by_index) |-> frame.ready_chunks_by_index[i].path]

\* combine_audio_files(ready_chunk_paths, output_path): the first argument
CombineInput(frame) == frame.ready_chunk_paths

FinalizeAudio ==
    /\ pl.pc = "finalize"
    /\ IF NoChunksProduced(pl.ready_chunk_paths)
       THEN /\ PipelineStep(<<>>, Raise(pl, NoChunksMsg))
            /\ UNCHANGED fin
       ELSE IF ~env.defer_finalize
       THEN /\ \E outcome \in CombineOutcomes(CombineInput(pl)) :
                  PipelineStep(<<Ev("finalizing_audio", EmptyDict)>>,
                     IF outcome = "raised" THEN Raise(pl, CombineMsg)
                     ELSE IF outcome = "nofile" THEN Raise(pl, NoFinalFileMsg)
                     ELSE [pl EXCEPT !.pc = "synthesis_completed",
                                     !.final_audio_ready = TRUE,
                                     !.metrics = DictUpdate(@, [finalize_deferred |-> FALSE])])
            /\ fin' = [fin EXCEPT !.input_paths = CombineInput(pl)]
       ELSE /\ PipelineStep(
                  <<Ev("finalizing_audio_async",
                       [audio_filename |-> filename,
                        ready_audio_chunks |-> pl.ready_chunk_filenames,
                        ready_chunk_count |-> Len(pl.ready_chunk_filenames)])>>,
                  [pl EXCEPT !.pc = "synthesis_completed",
                             !.metrics = DictUpdate(@, [finalize_deferred |-> TRUE])])
            \* threading.Thread(target=_finalize_async, daemon=True).start()
            /\ fin' = [fin EXCEPT !.pc = "combine"]
    /\ UNCHANGED <<env, futures, rn, agVars, tmVars, stVars, nvVars, gdVars>>

\* set_stage("synthesis_completed", ...), the final metrics and the return
SynthesisCompleted ==
    /\ pl.pc = "synthesis_completed"
    /\ LET progress == [total_sections |-> pl.total_sections,
                        generated_sections |-> pl.generated_sections_count,
                        synthesized_sections |-> pl.synthesized_sections]
           final_metrics ==
              DictUpdate(pl.metrics,
                 [intro_failed |-> pl.intro_failed,
                  tts_fallback_used |-> FALSE,
                  tts_serial_section_mode |-> env.tts_serial_mode,
                  playable_from_chunks |-> pl.ready_chunk_filenames # <<>>,
                  final_audio_ready |-> pl.final_audio_ready,
                  final_audio_filename |-> filename,
                  progress |-> progress])
       IN  PipelineStep(
              <<Ev("synthesis_completed",
                   [audio_filename |-> filename,
                    playable_from_chunks |-> pl.ready_chunk_filenames # <<>>,
                    final_audio_ready |-> pl.final_audio_ready,
                    final_audio_filename |-> filename,
                    ready_audio_chunks |-> pl.ready_chunk_filenames,
                    ready_chunk_count |-> Len(pl.ready_chunk_filenames),
                    progress |-> progress])>>,
              [pl EXCEPT !.pc = "returned",
                         !.metrics = final_metrics,
                         !.result = <<[audio_filename |-> filename,
                                       preview_audio_filename |-> preview_filename,
                                       playable_from_chunks |-> pl.ready_chunk_filenames # <<>>,
                                       final_audio_ready |-> pl.final_audio_ready,
                                       final_audio_filename |-> filename,
                                       metrics |-> final_metrics]>>])
    /\ UNCHANGED <<env, futures, fin, rn, agVars, tmVars, stVars, nvVars, gdVars>>

\* ---- _finalize_async, in its own daemon thread ----
\* Mutant of FinalizePayload: the error message is not put into the payload.
FinalizePayload_without_error(ok, error_message) ==
    [audio_filename |-> filename, final_audio_ready |-> ok]

\* payload of final_audio_completed (finalize_seconds_async is left out)
FinalizePayload(ok, error_message) ==
    LET base == [audio_filename |-> filename, final_audio_ready |-> ok]
    IN  IF ~ok /\ error_message # None
        THEN DictUpdate(base, [error |-> error_message]) ELSE base

FinalizeCombine ==
    /\ fin.pc = "combine"
    /\ \E outcome \in CombineOutcomes(CombineInput(pl)) :
          fin' = [fin EXCEPT !.pc = "emit",
                             !.input_paths = CombineInput(pl),
                             !.ok = (outcome = "ok"),
                             !.error_message = IF outcome = "raised" THEN CombineMsg ELSE None]
    /\ UNCHANGED <<env, pl, futures, rn, job, stages_emitted, agVars, tmVars, stVars, nvVars, gdVars>>

\* set_stage("final_audio_completed", payload) enters on_stage, which reads
\* the job: current = storage.get_job(job_id); current.result
FinalizeGetJob ==
    /\ fin.pc = "emit"
    /\ fin' = [fin EXCEPT !.pc = "update", !.current_result = job.result]
    /\ stages_emitted' = stages_emitted \cup {"final_audio_completed"}
    /\ UNCHANGED <<env, pl, futures, rn, job, agVars, tmVars, stVars, nvVars, gdVars>>

\* ... and then writes it: with the result it read when that was a dict
\* (main.py lines 88-98), by the generic update otherwise (line 101)
FinalizeUpdateJob ==
    /\ fin.pc = "update"
    /\ LET payload == DictUpdate(FinalizePayload(fin.ok, fin.error_message), TtsPayload)
       IN  job' = IF fin.current_result # <<>>
                  THEN JobStoreUpdate(job, None, "final_audio_completed", None,
                          <<[fin.current_result[1] EXCEPT
                                !.final_audio_ready = payload.final_audio_ready,
                                !.final_audio_filename = payload.audio_filename]>>,
                          <<payload>>)
                  ELSE on_stage(job, "final_audio_completed", payload)
    /\ fin' = [fin EXCEPT !.pc = "done"]
    /\ UNCHANGED <<env, pl, futures, rn, stages_emitted, agVars, tmVars, stVars, nvVars, gdVars>>

\* ---- _execute_job: the three ways the await ends ----
\* api_result (the fields that do not vary are left out)
ApiResult(result) ==
    [audio_url |-> "/audio/" \o result.audio_filename,
     preview_audio_url |-> "/audio/" \o result.preview_audio_filename,
     playable_from_chunks |-> result.playable_from_chunks,
     final_audio_ready |-> result.final_audio_ready,
     final_audio_filename |-> result.final_audio_filename]

ExecuteJobComplete ==
    /\ rn.pc = "waiting"
    /\ pl.pc = "returned"
    /\ job' = JobStoreUpdate(job, "completed", "completed", None,
                             <<ApiResult(pl.result[1])>>, <<pl.result[1].metrics>>)
    /\ rn' = [pc |-> "done", outcome |-> "completed"]
    /\ UNCHANGED <<env, pl, futures, fin, stages_emitted, agVars, tmVars, stVars, nvVars, gdVars>>

\* asyncio.wait_for gives up: the thread of run_pipeline cannot be cancelled
\* and keeps running.
ExecuteJobTimeout ==
    /\ rn.pc = "waiting"
    /\ pl.pc \notin {"returned", "raised"}
    /\ job' = JobStoreUpdate(job, "failed", "failed", TimeoutMsg, <<>>, <<>>)
    /\ rn' = [pc |-> "done", outcome |-> "timeout"]
    /\ UNCHANGED <<env, pl, futures, fin, stages_emitted, agVars, tmVars, stVars, nvVars, gdVars>>

\* except Exception as exc: error=str(exc)
ExecuteJobFail ==
    /\ rn.pc = "waiting"
    /\ pl.pc = "raised"
    /\ job' = JobStoreUpdate(job, "failed", "failed", pl.exc, <<>>, <<>>)
    /\ rn' = [pc |-> "done", outcome |-> "exception"]
    /\ UNCHANGED <<env, pl, futures, fin, stages_emitted, agVars, tmVars, stVars, nvVars, gdVars>>

PipelineNext ==
    \/ PreResearch
    \/ AgendaPlanning
    \/ GenerateIntro
    \/ SearchNews
    \/ CheckArticles
    \/ Filter
    \/ Extract
    \/ GenerateBodySection
    \/ ConsumeCompletedTts
    \/ DrainPendingTts
    \/ ConsumeFutureStep
    \/ GenerateConclusion
    \/ FinalizeAudio
    \/ SynthesisCompleted

FinalizeNext == FinalizeCombine \/ FinalizeGetJob \/ FinalizeUpdateJob

RunnerNext == ExecuteJobStart \/ ExecuteJobComplete \/ ExecuteJobFail

Next == PipelineNext \/ TaskFinish \/ FinalizeNext \/ RunnerNext \/ ExecuteJobTimeout

Spec == Init /\ [][Next]_vars

\* The thread of run_pipeline goes on from the search to the check of its
\* result, and the event loop resumes _execute_job once run_pipeline has
\* ended.  Nothing makes a synthesis task end or the timeout expire.
FairSpec ==
    /\ Spec
    /\ WF_vars(CheckArticles)
    /\ WF_vars(RunnerNext)

(***************************************************************************)
(* Claims about the job: ready chunks, finalization, failures              *)
(***************************************************************************)
\* The section_index a chunk file name stands for.
FilenameIndex(name) == CHOOSE k \in SectionIndexes : MetaFilename(k) = name

StrictlyIncreasingByIndex(names) ==
    \A i, j \in 1 .. Len(names) :
        i < j => FilenameIndex(names[i]) < FilenameIndex(names[j])

\* C1: whatever the order in which the synthesis tasks complete, after every
\* completion handled by _consume_completed_tts the ready-chunk list
\* (ready_chunk_filenames, ready_chunk_paths, metrics.ready_audio_chunks and
\* the list reported to the job) holds exactly the ready chunks, in strictly
\* increasing section_index order; gaps are allowed.
C1_ReadyChunksSortedByIndex ==
    /\ pl # <<>>
    /\ StrictlyIncreasingByIndex(pl.ready_chunk_filenames)
    /\ Range(pl.ready_chunk_filenames) =
          {MetaFilename(k) : k \in DictKeys(pl.ready_chunks_by_index)}
    /\ pl.ready_chunk_paths =
          [i \in 1 .. Len(pl.ready_chunk_filenames) |-> PathOf(pl.ready_chunk_filenames[i])]
    /\ "ready_audio_chunks" \in DOMAIN pl.metrics
          => pl.metrics.ready_audio_chunks = pl.ready_chunk_filenames
    /\ "ready_audio_chunks" \in DOMAIN job.metrics
          => StrictlyIncreasingByIndex(job.metrics.ready_audio_chunks)

\* Two chunks are ready and the later section completed first.
C1_Witness ==
    /\ pl # <<>>
    /\ Len(pl.ready_chunks_by_index) >= 2
    /\ pl.ready_chunks_by_index[1].section_index > pl.ready_chunks_by_index[2].section_index
    /\ Len(pl.ready_chunk_filenames) >= 2

\* C3: in deferred finalization mode the synthesis_completed stage event is
\* emitted before the final_audio_completed stage event of the background
\* finalize task, in every execution.
C3_SynthesisCompletedBeforeFinalAudio ==
    (env # <<>> /\ env.defer_finalize /\ "final_audio_completed" \in stages_emitted)
        => "synthesis_completed" \in stages_emitted

\* C4: in deferred finalization mode, when the background combine succeeded
\* and both the finalize thread and the job runner's completion update are
\* over, the job record shows final_audio_ready = true in its result and in
\* its metrics, whatever their interleaving was.
C4_FinalAudioReadyShown ==
    (/\ env # <<>> /\ env.defer_finalize
     /\ fin.pc = "done" /\ fin.ok
     /\ rn.pc = "done" /\ rn.outcome = "completed")
        => /\ job.result # <<>>
           /\ job.result[1].final_audio_ready
           /\ job.metrics.final_audio_ready

\* The indices >= 1 whose synthesis task succeeded.
SucceededAfterIntro == {k \in 1 .. conclusion_index : futures[k] = "ok"}

IntroFailedOthersReady ==
    /\ futures # <<>>
    /\ futures[0] = "failed"
    /\ SucceededAfterIntro # {}

\* C5: when the intro synthesis task fails and the synthesis of at least one
\* other section succeeds, run_pipeline does not raise for want of chunks;
\* once the job runner has taken its outcome (no outer timeout, no failure of
\* the synchronous combine) the job is completed, its metrics show
\* intro_failed = true and the ready chunks are exactly the indices >= 1 whose
\* synthesis succeeded, in index order.
C5_IntroFailureKeepsOtherChunks ==
    (/\ IntroFailedOthersReady
     /\ rn.pc = "done" /\ rn.outcome # "timeout")
        => /\ pl.exc \in {None, CombineMsg, NoFinalFileMsg}
           /\ pl.exc = None =>
                /\ job.status = "completed"
                /\ job.metrics.intro_failed = TRUE
                /\ job.metrics.ready_audio_chunks =
                      [i \in 1 .. Cardinality(SucceededAfterIntro) |->
                          MetaFilename(SortedSeq(SucceededAfterIntro)[i])]
                /\ job.metrics.ready_chunk_count = Cardinality(SucceededAfterIntro)

C5_Witness ==
    /\ IntroFailedOthersReady
    /\ rn.pc = "done" /\ rn.outcome = "completed"
    /\ job.status = "completed"
    /\ job.metrics.intro_failed = TRUE
    /\ Cardinality(SucceededAfterIntro) < conclusion_index

\* C6: when run_pipeline has not returned and the outer timeout expires, the
\* job becomes failed with the timeout message, and the transition leaves the
\* job's metrics, ready_audio_chunks and ready_chunk_count among them, as they
\* were; no later update takes a reported chunk away.
C6_TimeoutKeepsProgress ==
    [][ /\ (rn.pc = "waiting" /\ rn'.pc = "done" /\ rn'.outcome = "timeout")
            => /\ pl.pc \notin {"returned", "raised"}
               /\ job'.status = "failed"
               /\ job'.error = TimeoutMsg
               /\ job'.metrics = job.metrics
        /\ (job # <<>> /\ "ready_audio_chunks" \in DOMAIN job.metrics)
            => /\ "ready_audio_chunks" \in DOMAIN job'.metrics
               /\ Range(job.metrics.ready_audio_chunks)
                     \subseteq Range(job'.metrics.ready_audio_chunks)
      ]_vars

\* The job timed out with chunks already reported.
C6_Witness ==
    /\ rn # <<>> /\ rn.pc = "done" /\ rn.outcome = "timeout"
    /\ job.status = "failed" /\ job.error = TimeoutMsg
    /\ "ready_audio_chunks" \in DOMAIN job.metrics
    /\ Len(job.metrics.ready_audio_chunks) >= 1
    /\ job.metrics.ready_chunk_count = Len(job.metrics.ready_audio_chunks)

NothingFound ==
    /\ pl # <<>>
    /\ pl.pre_research_items = "empty"
    /\ pl.articles = "empty"

\* C7: when pre-research returned no items and the search returned no
\* articles, the job reaches status failed although the intro synthesis task
\* was submitted and may never end, and the error the runner stores for the
\* exception is the 'No articles found' message.
C7_NoArticlesFailsWithoutHanging ==
    /\ NothingFound ~> (job.status = "failed")
    /\ []((NothingFound /\ rn.pc = "done" /\ rn.outcome # "timeout")
            => (job.status = "failed" /\ job.error = NoArticlesMsg))

\* The job failed for want of articles while the intro task is still running.
C7_Witness ==
    /\ NothingFound
    /\ job.status = "failed" /\ job.error = NoArticlesMsg
    /\ futures[0] = "running"

\* C8: when no synthesis task yielded a ready chunk, run_pipeline raises after
\* the drain instead of going on to finalization; the job runner stores the
\* message of an exception of run_pipeline verbatim in a failed job; no job is
\* completed with an empty set of ready chunks.
C8_NoChunksFailsJob ==
    /\ pl # <<>>
    /\ (pl.pc \in {"synthesis_completed", "returned"}) => pl.ready_chunk_paths # <<>>
    /\ (pl.exc = NoChunksMsg) => (pl.pending_tts = {} /\ pl.ready_chunks_by_index = <<>>)
    /\ (rn.pc = "done" /\ rn.outcome = "exception")
          => (job.status = "failed" /\ job.error = pl.exc)
    /\ (job.status = "completed")
          => /\ job.metrics.ready_chunk_count >= 1
             /\ job.metrics.ready_audio_chunks # <<>>

\* Every task raised or left no file, and the job failed with the message.
C8_Witness ==
    /\ pl # <<>>
    /\ pl.exc = NoChunksMsg
    /\ \A k \in SectionIndexes : futures[k] = "failed"
    /\ rn.pc = "done" /\ rn.outcome = "exception"
    /\ job.status = "failed" /\ job.error = NoChunksMsg

\* C13: in both finalization modes the chunk files combined into the final
\* artifact are the ready chunks in strictly ascending section_index order,
\* whatever the order in which the synthesis tasks completed.
C13_CombinedInAscendingIndexOrder ==
    (fin # <<>> /\ fin.input_paths # <<>>)
        => LET ks == SortedSeq(DictKeys(pl.ready_chunks_by_index))
           IN  /\ pl.pending_tts = {}
               /\ fin.input_paths = [i \in 1 .. Len(ks) |-> PathOf(MetaFilename(ks[i]))]

\* Chunks that completed out of index order were combined, in either mode.
C13_Witness ==
    /\ fin # <<>>
    /\ Len(fin.input_paths) >= 2
    /\ Len(pl.ready_chunks_by_index) >= 2
    /\ pl.ready_chunks_by_index[1].section_index > pl.ready_chunks_by_index[2].section_index
    /\ \/ ~env.defer_finalize /\ pl.final_audio_ready
       \/ env.defer_finalize /\ fin.ok

\* C14: in deferred mode a failed background combine (an exception, or no
\* output file) is reported by the final_audio_completed stage event with
\* final_audio_ready = false, and with an error field when there is an
\* exception message; the event changes neither the job's status nor its
\* error, and a completed job stays completed.
C14_FinalizeFailureReportedOnly ==
    [][ /\ (fin.pc = "update" /\ fin'.pc = "done" /\ ~fin.ok)
            => /\ job'.stage = "final_audio_completed"
               /\ job'.metrics.final_audio_ready = FALSE
               /\ fin.error_message # None =>
                     /\ "error" \in DOMAIN job'.metrics
                     /\ job'.metrics.error = fin.error_message
               /\ fin.error_message = None => "error" \notin DOMAIN job'.metrics
               /\ job'.status = job.status
               /\ job'.error = job.error
               /\ job'.result # <<>> => job'.result[1].final_audio_ready = FALSE
        /\ (job # <<>> /\ job.status = "completed") => job'.status = "completed"
      ]_vars

\* The combine raised after the job was completed; the job shows the error
\* in its metrics and is still completed.
C14_Witness ==
    /\ fin # <<>>
    /\ fin.pc = "done" /\ ~fin.ok /\ fin.error_message = CombineMsg
    /\ fin.current_result # <<>>
    /\ job.status = "completed"
    /\ job.stage = "final_audio_completed"
    /\ job.metrics.error = CombineMsg
    /\ job.metrics.final_audio_ready = FALSE

(***************************************************************************)
(* The stage event sink raising: set_stage calls on_stage unguarded        *)
(***************************************************************************)
\* str(exc) of an exception raised inside on_stage, for example by the
\* Firestore write of Storage.update_job, which follows the in-memory update.
OnStageMsg == "on_stage failed"

\* The stage label of the first set_stage call of the step at pc (the steps
\* whose first call carries no metrics of its own).
FirstStage ==
    [pre_research |-> "pre_researching",
     agenda |-> "agenda_planning",
     intro |-> "generating_intro",
     search |-> "searching",
     filter |-> "filtering",
     extract |-> "extracting",
     gen_conclusion |-> "generating_conclusion"]

\* set_stage (pipeline.py lines 215-223) has no try/except around
\* on_stage(stage, payload): an exception of the callback leaves run_pipeline
\* at the call.  The in-memory update of the job has been made by then.
OnStageRaises ==
    /\ pl.pc \in DOMAIN FirstStage
    /\ PipelineStep(<<Ev(FirstStage[pl.pc], EmptyDict)>>, Raise(pl, OnStageMsg))
    /\ UNCHANGED <<env, futures, fin, rn, agVars, tmVars, stVars, nvVars, gdVars>>

NextSink == Next \/ OnStageRaises

SpecSink == Init /\ [][NextSink]_vars

\* The exception messages run_pipeline raises itself.
PipelineOwnMessages ==
    {IntroEmptyMsg, NoArticlesMsg, NoSelectionMsg, NoSourcesMsg, NoChunksMsg,
     CombineMsg, NoFinalFileMsg}

\* C15: the stage event sink never fails the pipeline: when on_stage raises
\* on a stage event run_pipeline goes on, so run_pipeline ends only by
\* returning or by one of its own exceptions, and a failed job carries one of
\* those messages or the timeout message, as with a callback that succeeds.
C15_SinkNeverFailsPipeline ==
    pl # <<>> =>
        /\ pl.pc = "raised" => pl.exc \in PipelineOwnMessages
        /\ job.status = "failed" => job.error \in PipelineOwnMessages \cup {TimeoutMsg}

(***************************************************************************)
(* Claims about serial mode                                                *)
(***************************************************************************)
\* the tasks of the section pool that were submitted and have not ended
InFlight == {k \in 1 .. conclusion_index : futures[k] \in {"queued", "running"}}

\* C20: in serial mode, once a body section has been submitted, generation
\* of the next section (body or conclusion) starts with no synthesis task
\* pending, and at no time is more than one task of the section pool
\* pending or in flight.
C20_SerialModeDrainsAfterEverySubmission ==
    (pl # <<>> /\ env.tts_serial_mode) =>
        /\ (pl.pc \in {"gen_body", "gen_conclusion"} /\ pl.body_generated > 0)
               => pl.pending_tts = {}
        /\ Cardinality(InFlight) <= 1
        /\ Cardinality(pl.pending_tts \ {0}) <= 1

\* serial mode is about to generate the second body section, and the first
\* one's task has been waited for and consumed
C20_Witness ==
    /\ pl # <<>>
    /\ env.tts_serial_mode
    /\ pl.pc = "gen_body"
    /\ pl.body_generated > 0
    /\ futures[0] \in {"ok", "failed"}
    /\ futures[pl.body_generated] \in {"ok", "failed"}

(***************************************************************************)
(* Claims about parallel mode and the drain before finalization            *)
(***************************************************************************)
\* C21: with serial mode off, run_pipeline never waits for a synthesis task
\* between two body sections: the only wait loop it enters is the one before
\* finalization, and the poll after a submission can always be taken, with
\* tasks pending or not.
C21_ParallelModeNeverWaitsBetweenSections ==
    (pl # <<>> /\ ~env.tts_serial_mode) =>
        /\ pl.pc = "drain" => pl.ret = "finalize"
        /\ (pl.pc = "consume_iter" /\ pl.after = "drain") => pl.ret = "finalize"
        /\ pl.pc = "consume" => ENABLED ConsumeCompletedTts

\* generation of the second body section is about to start while the first
\* section's task and the intro task are both still running
C21_Witness ==
    /\ pl # <<>>
    /\ ~env.tts_serial_mode
    /\ pl.pc = "gen_body"
    /\ pl.body_generated >= 1
    /\ {0, pl.body_generated} \subseteq pl.pending_tts
    /\ futures[0] = "running"
    /\ futures[pl.body_generated] = "running"

\* the tasks that were submitted and whose future has not been consumed
Unconsumed == {k \in SectionIndexes : futures[k] \in {"queued", "running", "done"}}

\* C22: finalization (the synchronous combine or the start of the finalize
\* thread) begins only when every submitted synthesis task, the intro and
\* the conclusion included, has ended and has been consumed: the registry
\* of pending tasks is empty then, and stays empty.
C22_FinalizationAfterFullDrain ==
    (pl # <<>> /\ (pl.pc \in {"finalize", "synthesis_completed", "returned"}
                     \/ fin.pc # "not_started")) =>
        /\ pl.pending_tts = {}
        /\ Unconsumed = {}

\* finalization is about to begin and the intro, a body section and the
\* conclusion have all been submitted and consumed
C22_Witness ==
    /\ pl # <<>>
    /\ pl.pc = "finalize"
    /\ \A k \in {0, 1, conclusion_index} : futures[k] \in {"ok", "failed"}

(***************************************************************************)
(* main.py : _execute_job when a write of the storage raises               *)
(***************************************************************************)
StorageMsg == "storage write failed"

\* storage.upsert_episode (main.py lines 155-181) is inside the try block and
\* comes after the update to status="completed": when its Firestore write
\* raises (job_store.py lines 283-287), `except Exception` marks the job
\* failed.
UpsertEpisodeRaises ==
    /\ rn.pc = "done"
    /\ rn.outcome = "completed"
    /\ job' = JobStoreUpdate(job, "failed", "failed", StorageMsg, <<>>, <<>>)
    /\ rn' = [pc |-> "done", outcome |-> "exception"]
    /\ UNCHANGED <<env, pl, futures, fin, stages_emitted, agVars, tmVars, stVars, nvVars, gdVars>>

NextStorage == Next \/ UpsertEpisodeRaises

SpecStorage == Init /\ [][NextStorage]_vars

(***************************************************************************)
(* Claims about the job record after the runner has ended                  *)
(***************************************************************************)
\* C23: the status of a job only moves queued -> running -> completed or
\* failed, and once it is completed or failed it never changes again,
\* whatever happens later.
C23_StatusIsMonotonic ==
    [][ /\ job.status = "queued" => job'.status \in {"queued", "running"}
        /\ job.status = "running" => job'.status \in {"running", "completed", "failed"}
        /\ job.status \in {"completed", "failed"} => job'.status = job.status ]_vars

\* C24: once the outer timeout has marked the job failed, the pipeline of
\* that job no longer modifies the job record: the stage stays "failed" and
\* the metrics stay as they were.
C24_NoUpdateAfterTimeout ==
    [][ (rn.pc = "done" /\ rn.outcome = "timeout") =>
            /\ job'.stage = "failed"
            /\ job'.metrics = job.metrics ]_vars

(***************************************************************************)
(* Claims about the consumption of synthesis tasks                         *)
(***************************************************************************)
SectionsWithStatus(status) ==
    {pl.transcript_sections[i].section_index :
        i \in {j \in 1 .. Len(pl.transcript_sections) :
                  pl.transcript_sections[j].status = status}}

\* C25: a section's status is "ready" exactly when its section_index is a
\* key of ready_chunks_by_index; a status only goes from "generated" to
\* "ready" and never back; a section whose task raised or left no file stays
\* "generated" and is not among the ready chunks.
C25_ReadyIffInReadyIndex ==
    /\ [](pl # <<>> =>
            /\ SectionsWithStatus("ready") = DictKeys(pl.ready_chunks_by_index)
            /\ \A i \in 1 .. Len(pl.transcript_sections) :
                   pl.transcript_sections[i].status \in {"generated", "ready"}
            /\ \A k \in SectionIndexes :
                   futures[k] = "failed" =>
                       /\ k \in SectionsWithStatus("generated")
                       /\ k \notin DictKeys(pl.ready_chunks_by_index))
    /\ [][pl # <<>> =>
            \A i \in 1 .. Len(pl.transcript_sections) :
                /\ i <= Len(pl'.transcript_sections)
                /\ pl'.transcript_sections[i].section_index
                       = pl.transcript_sections[i].section_index
                /\ pl.transcript_sections[i].status = "ready"
                       => pl'.transcript_sections[i].status = "ready"]_vars

\* one section has become ready while another one's task has failed
C25_Witness ==
    /\ pl # <<>>
    /\ \E j, k \in SectionIndexes :
           /\ futures[j] = "ok"
           /\ j \in SectionsWithStatus("ready")
           /\ futures[k] = "failed"
           /\ k \in SectionsWithStatus("generated")

\* C26: intro_failed is set only when the task of section 0 fails (it raised
\* or left no file), is never reset, and is what the final metrics report; a
\* failure of any other section does not set it and emits no stage event.
C26_IntroFailedOnlyByIntro ==
    /\ [][pl # <<>> =>
            /\ pl.intro_failed => pl'.intro_failed
            /\ (~pl.intro_failed /\ pl'.intro_failed)
                   => (futures[0] = "done" /\ futures'[0] = "failed")
            /\ \A k \in SectionIndexes \ {0} :
                   (futures[k] # "failed" /\ futures'[k] = "failed")
                       => /\ pl'.intro_failed = pl.intro_failed
                          /\ stages_emitted' = stages_emitted
                          /\ job' = job]_vars
    /\ []((pl # <<>> /\ pl.pc = "returned")
              => pl.result[1].metrics.intro_failed = pl.intro_failed)

\* run_pipeline has returned after the intro task and another task failed
C26_Witness ==
    /\ pl # <<>>
    /\ pl.pc = "returned"
    /\ pl.intro_failed
    /\ pl.result[1].metrics.intro_failed
    /\ futures[0] = "failed"
    /\ \E k \in SectionIndexes \ {0} : futures[k] = "failed"

(***************************************************************************)
(* job_store.py : InMemoryJobStore called from several threads             *)
(*                                                                         *)
(* Each caller makes one call of create, get or update.  The statements    *)
(* inside "with self._lock" are separate steps, so that what the lock buys *)
(* is part of the model and not assumed.                                   *)
(***************************************************************************)
NumCallers == 2

Callers == 1 .. NumCallers

JobId == "j1"

\* a job id that no caller creates
OtherJobId == "j2"

\* JobRecord(...) as create builds it
JobRecord(job_id, topic, now) ==
    [job_id |-> job_id, status |-> "queued", stage |-> "queued",
     created_at |-> now, updated_at |-> now, topic |-> topic,
     error |-> None, result |-> <<>>, metrics |-> EmptyDict]

\* the arguments of one call; an argument that is not passed is None / <<>>
StoreCall(op, job_id, status, stage, error, result, metrics) ==
    [op |-> op, job_id |-> job_id, status |-> status, stage |-> stage,
     error |-> error, result |-> result, metrics |-> metrics]

GeneratedMetrics ==
    [progress |-> [generated_sections |-> 1], ready_chunk_count |-> 1]

SynthesizedMetrics ==
    [progress |-> [synthesized_sections |-> 1], ttfa_ms |-> 5]

ResultDict == [audio_url |-> "a"]

StoreCalls ==
    {StoreCall("create", JobId, None, None, None, <<>>, <<>>),
     StoreCall("get", JobId, None, None, None, <<>>, <<>>),
     StoreCall("get", OtherJobId, None, None, None, <<>>, <<>>),
     StoreCall("update", JobId, "running", None, None, <<>>, <<>>),
     StoreCall("update", JobId, None, "section_ready", None, <<>>,
               <<GeneratedMetrics>>),
     StoreCall("update", JobId, None, "synthesis_completed", None, <<>>,
               <<SynthesizedMetrics>>),
     StoreCall("update", JobId, "failed", "failed", "boom", <<>>, <<>>),
     StoreCall("update", JobId, "completed", None, None, <<ResultDict>>, <<>>),
     StoreCall("update", OtherJobId, None, "running", None, <<>>, <<>>)}

\* the job exists before the callers start: create_job has stored it
InitStore ==
    /\ st_jobs = [j \in {JobId} |-> JobRecord(JobId, Topic, 0)]
    /\ st_lock = 0
    /\ st_clock = 1
    /\ \E calls \in [Callers -> StoreCalls] :
           st_calls = [c \in Callers |->
                          [call |-> calls[c], pc |-> "start", now |-> 0,
                           before |-> <<>>, ret |-> <<>>]]
    /\ AgendaIdle
    /\ TimingIdle
    /\ JobIdle
    /\ NoveltyIdle
    /\ GuardIdle

\* Mutant of LockFree: the lock is never waited for.
LockFree_not_waited(lock) == TRUE

\* Lock.acquire goes through when no thread holds the lock
LockFree(lock) == lock = 0

\* Mutant of SetStrField: the argument is stored whether passed or not.
SetStrField_unconditional(record, f, v) == [record EXCEPT ![f] = v]

\* if status is not None: record.status = status  (and stage, error alike)
SetStrField(record, f, v) ==
    IF v # None THEN [record EXCEPT ![f] = v] ELSE record

\* if result is not None: record.result = result
SetResult(record, result) ==
    IF result # <<>> THEN [record EXCEPT !.result = result] ELSE record

\* if metrics is not None: record.metrics.update(metrics)
SetMetrics(record, metrics) ==
    IF metrics # <<>>
    THEN [record EXCEPT !.metrics = DictUpdate(@, metrics[1])]
    ELSE record

\* the statements of update between the lookup and the time stamp, in order
FieldOrder == <<"status", "stage", "error", "result", "metrics", "stamp">>

NextField(f) ==
    FieldOrder[(CHOOSE i \in 1 .. Len(FieldOrder) : FieldOrder[i] = f) + 1]

\* now = utc_now(); record = JobRecord(...), before the lock is taken
StoreCreateBuild(c) ==
    /\ st_calls[c].call.op = "create"
    /\ st_calls[c].pc = "start"
    /\ st_calls' = [st_calls EXCEPT ![c].now = st_clock, ![c].pc = "built"]
    /\ st_clock' = st_clock + 1
    /\ UNCHANGED <<st_jobs, st_lock, agVars, tmVars, jobVars, nvVars, gdVars>>

\* with self._lock: (entry)
StoreAcquire(c) ==
    /\ st_calls[c].pc = IF st_calls[c].call.op = "create" THEN "built" ELSE "start"
    /\ LockFree(st_lock)
    /\ st_lock' = c
    /\ st_calls' = [st_calls EXCEPT ![c].pc = "locked"]
    /\ UNCHANGED <<st_jobs, st_clock, agVars, tmVars, jobVars, nvVars, gdVars>>

\* self._jobs[job_id] = record
StoreCreateAssign(c) ==
    LET f == st_calls[c]
        record == JobRecord(f.call.job_id, Topic, f.now)
    IN  /\ f.call.op = "create"
        /\ f.pc = "locked"
        /\ st_jobs' = [j \in DOMAIN st_jobs \cup {f.call.job_id} |->
                          IF j = f.call.job_id THEN record ELSE st_jobs[j]]
        /\ st_calls' = [st_calls EXCEPT ![c].ret = <<record>>, ![c].pc = "release"]
        /\ UNCHANGED <<st_lock, st_clock, agVars, tmVars, jobVars, nvVars, gdVars>>

\* return self._jobs.get(job_id)
StoreGetRead(c) ==
    LET f == st_calls[c]
    IN  /\ f.call.op = "get"
        /\ f.pc = "locked"
        /\ st_calls' = [st_calls EXCEPT
               ![c].ret = IF f.call.job_id \in DOMAIN st_jobs
                          THEN <<st_jobs[f.call.job_id]>> ELSE <<>>,
               ![c].pc = "release"]
        /\ UNCHANGED <<st_jobs, st_lock, st_clock, agVars, tmVars, jobVars, nvVars, gdVars>>

\* record = self._jobs[job_id]  (KeyError for an id that is not stored)
StoreUpdateLookup(c) ==
    LET f == st_calls[c]
    IN  /\ f.call.op = "update"
        /\ f.pc = "locked"
        /\ st_calls' = [st_calls EXCEPT
               ![c].before = IF f.call.job_id \in DOMAIN st_jobs
                             THEN <<st_jobs[f.call.job_id]>> ELSE <<>>,
               ![c].pc = IF f.call.job_id \in DOMAIN st_jobs
                         THEN "status" ELSE "raising"]
        /\ UNCHANGED <<st_jobs, st_lock, st_clock, agVars, tmVars, jobVars, nvVars, gdVars>>

\* one of the five conditional assignments of update
StoreUpdateField(c) ==
    LET f == st_calls[c]
        id == f.call.job_id
        record == st_jobs[id]
    IN  /\ f.pc \in {"status", "stage", "error", "result", "metrics"}
        /\ st_jobs' = [st_jobs EXCEPT ![id] =
               CASE f.pc \in {"status", "stage", "error"} ->
                        SetStrField(record, f.pc, f.call[f.pc])
                 [] f.pc = "result" -> SetResult(record, f.call.result)
                 [] f.pc = "metrics" -> SetMetrics(record, f.call.metrics)]
        /\ st_calls' = [st_calls EXCEPT ![c].pc = NextField(f.pc)]
        /\ UNCHANGED <<st_lock, st_clock, agVars, tmVars, jobVars, nvVars, gdVars>>

\* record.updated_at = utc_now(); return record
StoreUpdateStamp(c) ==
    LET f == st_calls[c]
        id == f.call.job_id
    IN  /\ f.pc = "stamp"
        /\ st_jobs' = [st_jobs EXCEPT ![id].updated_at = st_clock]
        /\ st_clock' = st_clock + 1
        /\ st_calls' = [st_calls EXCEPT
               ![c].now = st_clock,
               ![c].ret = <<st_jobs'[id]>>,
               ![c].pc = "release"]
        /\ UNCHANGED <<st_lock, agVars, tmVars, jobVars, nvVars, gdVars>>

\* with self._lock: (exit, also when KeyError leaves the block)
StoreRelease(c) ==
    /\ st_calls[c].pc \in {"release", "raising"}
    /\ st_lock' = 0
    /\ st_calls' = [st_calls EXCEPT
           ![c].pc = IF st_calls[c].pc = "raising" THEN "raised" ELSE "done"]
    /\ UNCHANGED <<st_jobs, st_clock, agVars, tmVars, jobVars, nvVars, gdVars>>

NextStore ==
    \E c \in Callers :
        \/ StoreCreateBuild(c)
        \/ StoreAcquire(c)
        \/ StoreCreateAssign(c)
        \/ StoreGetRead(c)
        \/ StoreUpdateLookup(c)
        \/ StoreUpdateField(c)
        \/ StoreUpdateStamp(c)
        \/ StoreRelease(c)

SpecStore == InitStore /\ [][NextStore]_vars

(***************************************************************************)
(* Claims about the job store                                              *)
(***************************************************************************)
UpdatesDone ==
    {c \in Callers : st_calls[c].call.op = "update" /\ st_calls[c].pc = "done"}

\* C16: update changes only the fields that were passed (status, stage,
\* error, result) and updated_at; every field that was not passed keeps the
\* value it had; get of a job id that was never created returns nothing.
C16_UpdateIsPartialMerge ==
    st_calls # <<>> =>
        /\ \A c \in UpdatesDone :
               LET f == st_calls[c]
                   b == f.before[1]
                   a == f.ret[1]
               IN  /\ \A k \in {"status", "stage", "error"} :
                          a[k] = IF f.call[k] # None THEN f.call[k] ELSE b[k]
                   /\ a.result = IF f.call.result # <<>> THEN f.call.result
                                 ELSE b.result
                   /\ f.call.metrics = <<>> => a.metrics = b.metrics
                   /\ a.job_id = b.job_id
                   /\ a.topic = b.topic
                   /\ a.created_at = b.created_at
                   /\ a.updated_at = f.now
        /\ \A c \in Callers :
               LET f == st_calls[c]
               IN  (f.call.op = "get" /\ f.call.job_id = OtherJobId /\ f.pc = "done")
                       => f.ret = <<>>

\* an update that passed no stage has kept the stage another update had set
C16_Witness ==
    /\ st_calls # <<>>
    /\ \E c \in UpdatesDone :
           /\ st_calls[c].call.stage = None
           /\ st_calls[c].call.status # None
           /\ st_calls[c].before[1].stage # "queued"
           /\ st_calls[c].ret[1].stage = st_calls[c].before[1].stage
           /\ st_calls[c].ret[1].status # st_calls[c].before[1].status

\* C17: update merges metrics deeply: the keys of a stored nested dict
\* (progress) that the update's nested dict does not have are preserved.
C17_MetricsDeepMerged ==
    st_calls # <<>> =>
        \A c \in UpdatesDone :
            LET f == st_calls[c]
                b == f.before[1].metrics
                a == f.ret[1].metrics
            IN  (f.call.metrics # <<>> /\ "progress" \in DOMAIN b
                     /\ "progress" \in DOMAIN f.call.metrics[1])
                    => \A k \in DOMAIN b.progress :
                           /\ k \in DOMAIN a.progress
                           /\ k \notin DOMAIN f.call.metrics[1].progress
                                  => a.progress[k] = b.progress[k]

Perms(S) ==
    {p \in [1 .. Cardinality(S) -> S] :
        \A i, j \in 1 .. Cardinality(S) : p[i] = p[j] => i = j}

\* One call carried out alone on the store jobs: the store after it and what
\* the call returns, or that update raises KeyError.
SerialCall(jobs, f) ==
    LET id == f.call.job_id
    IN  CASE f.call.op = "create" ->
                 LET record == JobRecord(id, Topic, f.now)
                 IN  [jobs |-> [j \in DOMAIN jobs \cup {id} |->
                                   IF j = id THEN record ELSE jobs[j]],
                      ret |-> <<record>>, raised |-> FALSE]
          [] f.call.op = "get" ->
                 [jobs |-> jobs,
                  ret |-> IF id \in DOMAIN jobs THEN <<jobs[id]>> ELSE <<>>,
                  raised |-> FALSE]
          [] f.call.op = "update" ->
                 IF id \notin DOMAIN jobs
                 THEN [jobs |-> jobs, ret |-> <<>>, raised |-> TRUE]
                 ELSE LET u == JobStoreUpdate(jobs[id], f.call.status, f.call.stage,
                                              f.call.error, f.call.result,
                                              f.call.metrics)
                          record == [jobs[id] EXCEPT
                                        !.status = u.status, !.stage = u.stage,
                                        !.error = u.error, !.result = u.result,
                                        !.metrics = u.metrics,
                                        !.updated_at = f.now]
                      IN  [jobs |-> [jobs EXCEPT ![id] = record],
                           ret |-> <<record>>, raised |-> FALSE]

RECURSIVE SerialRun(_, _, _)
\* the calls of order[i..], one after the other: the final store and whether
\* every call returned what it returned in the run
SerialRun(jobs, order, i) ==
    IF i > Len(order) THEN [jobs |-> jobs, same |-> TRUE]
    ELSE LET f == st_calls[order[i]]
             r == SerialCall(jobs, f)
             rest == SerialRun(r.jobs, order, i + 1)
         IN  [jobs |-> rest.jobs,
              same |-> /\ rest.same
                       /\ r.raised = (f.pc = "raised")
                       /\ r.ret = f.ret]

CallsEnded == {c \in Callers : st_calls[c].pc \in {"done", "raised"}}

InitialJobs == [j \in {JobId} |-> JobRecord(JobId, Topic, 0)]

\* C18: calls of create, update and get on one job id from different threads
\* are atomic: whenever no call is inside the store, the records are what
\* the calls that have ended give when carried out one after the other in
\* some order, and each of them returned what it returns in that order.
C18_CallsAreSerializable ==
    (st_calls # <<>> /\ st_lock = 0) =>
        \E order \in Perms(CallsEnded) :
            LET r == SerialRun(InitialJobs, order, 1)
            IN  r.same /\ r.jobs = st_jobs

\* two updates of the same job that pass the same field have both ended, and
\* the second one found what the first one had stored
C18_Witness ==
    /\ st_calls # <<>>
    /\ \E c1, c2 \in UpdatesDone :
           /\ c1 # c2
           /\ st_calls[c1].call.status # None
           /\ st_calls[c2].call.status # None
           /\ st_calls[c1].call.status # st_calls[c2].call.status
           /\ st_calls[c2].before[1].status = st_calls[c1].call.status
           /\ st_jobs[JobId].status = st_calls[c2].call.status
           /\ st_jobs[JobId].error = "boom"

(***************************************************************************)
(* modules/generator.py : compute_section_novelty                          *)
(*                                                                         *)
(* A str is a sequence of characters.  A score is an integer number of     *)
(* ten-thousandths, which is what round(x, 4) leaves of a float.           *)
(***************************************************************************)
MaxTextLen == 3

\* the characters of the texts: a letter and a white-space character
NL == "\n"

Chars == {"a", NL}

IsSpace(ch) == ch \in {NL, " "}

Texts == SeqsUpTo(Chars, MaxTextLen)

\* section_script with up to two items, covered_points with up to two points
Scripts == {<<>>} \cup {<<t>> : t \in Texts} \cup {<<t, u>> : t, u \in Texts}

PointLists == {<<>>} \cup {<<t>> : t \in Texts} \cup {<<t, u>> : t, u \in Texts}

RECURSIVE Join(_, _)
\* "\n".join(item.get("text", "") for item in script), from item i on
Join(script, i) ==
    IF i > Len(script) THEN <<>>
    ELSE IF i = Len(script) THEN script[i]
    ELSE script[i] \o <<NL>> \o Join(script, i + 1)

_script_text(script) == Join(script, 1)

RECURSIVE LStrip(_)
LStrip(s) == IF s # <<>> /\ IsSpace(Head(s)) THEN LStrip(Tail(s)) ELSE s

RECURSIVE RStrip(_)
RStrip(s) ==
    IF s # <<>> /\ IsSpace(s[Len(s)]) THEN RStrip(SubSeq(s, 1, Len(s) - 1)) ELSE s

\* str.strip()
Strip(s) == RStrip(LStrip(s))

RECURSIVE CollapseSpaces(_)
\* re.sub(r"\s+", " ", s)
CollapseSpaces(s) ==
    IF s = <<>> THEN <<>>
    ELSE IF IsSpace(Head(s))
         THEN <<" ">> \o CollapseSpaces(LStrip(s))
         ELSE <<Head(s)>> \o CollapseSpaces(Tail(s))

_normalize_point_text(text) == CollapseSpaces(Strip(text))

\* _char_ngrams(text, 3); its parameter n is called size here
_char_ngrams(text, size) ==
    LET s == _normalize_point_text(text)
    IN  IF Len(s) < size THEN (IF s # <<>> THEN {s} ELSE {})
        ELSE {SubSeq(s, i, i + size - 1) : i \in 1 .. Len(s) - size + 1}

\* sim = (inter / union) if union else 0.0, as the fraction <<inter, union>>
Similarity(base, other) ==
    LET inter == Cardinality(base \cap other)
        union == Cardinality(base \cup other)
    IN  IF union # 0 THEN <<inter, union>> ELSE <<0, 1>>

\* sim > best, for two fractions
Greater(sim, best) == sim[1] * best[2] > best[1] * sim[2]

RECURSIVE BestSimilarity(_, _, _, _)
\* the loop over points: best is replaced by each greater similarity
BestSimilarity(base, points, i, best) ==
    IF i > Len(points) THEN best
    ELSE LET other == _char_ngrams(points[i], 3)
             sim == Similarity(base, other)
         IN  IF other = {} THEN BestSimilarity(base, points, i + 1, best)
             ELSE BestSimilarity(base, points, i + 1,
                                 IF Greater(sim, best) THEN sim ELSE best)

_max_similarity_to_points(text, points) ==
    LET base == _char_ngrams(text, 3)
    IN  IF base = {} THEN <<0, 1>> ELSE BestSimilarity(base, points, 1, <<0, 1>>)

\* round(num / den, 4) in ten-thousandths: to the nearest, a tie to the even
Round4(num, den) ==
    LET q == (num * 10000) \div den
        r == (num * 10000) % den
    IN  IF 2 * r < den THEN q
        ELSE IF 2 * r > den THEN q + 1
        ELSE IF q % 2 = 0 THEN q ELSE q + 1

compute_section_novelty(section_script, covered_points) ==
    LET text == _script_text(section_script)
        sim == _max_similarity_to_points(text, covered_points)
    IN  IF text = <<>> THEN 0
        ELSE IF covered_points = <<>> THEN 10000
        ELSE Round4(Max2(0, sim[2] - sim[1]), sim[2])

InitNovelty ==
    /\ nv_pc = "input"
    /\ nv_script \in Scripts
    /\ nv_points \in PointLists
    /\ nv_score = 0
    /\ AgendaIdle
    /\ TimingIdle
    /\ JobIdle
    /\ StoreIdle
    /\ GuardIdle

\* novelty = generator.compute_section_novelty(section_script, covered_points)
ComputeNovelty ==
    /\ nv_pc = "input"
    /\ nv_score' = compute_section_novelty(nv_script, nv_points)
    /\ nv_pc' = "done"
    /\ UNCHANGED <<nv_script, nv_points, agVars, tmVars, jobVars, stVars, gdVars>>

NextNovelty == ComputeNovelty

SpecNovelty == InitNovelty /\ [][NextNovelty]_vars

(***************************************************************************)
(* Claims about the novelty score                                          *)
(***************************************************************************)
\* the greatest Jaccard similarity of the section's trigrams to a point's
MaxJaccard(text, points) ==
    LET base == _char_ngrams(text, 3)
        sims == {Similarity(base, _char_ngrams(points[i], 3)) : i \in 1 .. Len(points)}
    IN  IF sims = {} THEN <<0, 1>>
        ELSE CHOOSE s \in sims : \A t \in sims : ~Greater(t, s)

novelty_threshold == 3200

\* `for _ in range(2)` of the topicality guard and of the novelty guard
TopicalityRetries == 2

NoveltyRetries == 2

T_aa == <<"a", "a">>

T_aaa == <<"a", "a", "a">>

\* section scripts the generator can return (a script is the sequence of the
\* texts of its items, which _clean_script_items keeps stripped and non-empty):
\* nothing, and texts with and without the letters of the node title
GuardScripts == {<<>>, <<T_aaa, T_aa>>, <<T_aa, T_aa>>, <<T_aaa>>, <<T_aa>>}

\* node titles: one that yields an anchor keyword and one too short for it
NodeTitles == {<<"A", "a", "a">>, <<"a">>}

\* what the summarizer's JSON can hold as one of its new_points
RawPoints == {<<>>, <<"a", "a", NL, "a", "a">>}

RawQuestions == {<<>>, <<"q">>}

\* str.lower() on the characters used here
Lower(s) == [i \in 1 .. Len(s) |-> IF s[i] = "A" THEN "a" ELSE s[i]]

\* token in text
Contains(text, token) ==
    \E i \in 1 .. Len(text) - Len(token) + 1 :
        SubSeq(text, i, i + Len(token) - 1) = token

\* _extract_anchor_keywords(title, note) for a title made of letters and an
\* empty note: re.findall gives the title as its one token when it has two
\* characters or more, and the token is not a stop word
_extract_anchor_keywords(title) == IF Len(title) >= 2 THEN <<title>> ELSE <<>>

_is_off_topic(section_script, anchor_keywords) ==
    IF section_script = <<>> \/ anchor_keywords = <<>> THEN FALSE
    ELSE LET text == Lower(_script_text(section_script))
             hit == Cardinality({i \in 1 .. Len(anchor_keywords) :
                                    Contains(text, Lower(anchor_keywords[i]))})
         IN  hit <= 0

is_off_topic_section(title, section_script) ==
    _is_off_topic(section_script, _extract_anchor_keywords(title))

RECURSIVE SplitChunks(_, _)
\* re.split(r"[。！？\n]+", text) with each piece stripped and the empty
\* pieces dropped; cur is the piece being read
SplitChunks(text, cur) ==
    IF text = <<>> THEN (IF Strip(cur) # <<>> THEN <<Strip(cur)>> ELSE <<>>)
    ELSE IF Head(text) = NL
         THEN (IF Strip(cur) # <<>> THEN <<Strip(cur)>> ELSE <<>>)
                  \o SplitChunks(Tail(text), <<>>)
         ELSE SplitChunks(Tail(text), Append(cur, Head(text)))

\* the normalized non-empty strings among the first two of items
NormalizedPoints(items) ==
    SelectSeq([i \in 1 .. Min2(2, Len(items)) |-> _normalize_point_text(items[i])],
              LAMBDA s : s # <<>>)

\* summarize_section_delta: answered is whether the model's JSON was
\* obtained (points_raw, question) or the fallback of `except` was taken
summarize_section_delta(section_script, answered, points_raw, question) ==
    LET section_text == _script_text(section_script)
        chunks == SplitChunks(section_text, <<>>)
    IN  IF Strip(section_text) = <<>>
        THEN [new_points |-> <<>>, carry_open_question |-> <<>>]
        ELSE IF answered
        THEN [new_points |-> NormalizedPoints(points_raw),
              carry_open_question |-> _normalize_point_text(question)]
        ELSE [new_points |-> NormalizedPoints(chunks),
              carry_open_question |->
                  IF chunks # <<>> THEN chunks[Len(chunks)] \o <<"?">> ELSE <<>>]

RECURSIVE AppendNewPoints(_, _, _)
\* for point in new_points[:2]: s = str(point).strip();
\*     if s and s not in covered_points: covered_points.append(s)
AppendNewPoints(covered_points, new_points, i) ==
    IF i > Min2(2, Len(new_points)) THEN covered_points
    ELSE LET s == Strip(new_points[i])
         IN  AppendNewPoints(
                 IF s # <<>> /\ s \notin Range(covered_points)
                 THEN Append(covered_points, s) ELSE covered_points,
                 new_points, i + 1)

\* the chapters of the body nodes 1 .. NumNodes, as the planner pairs them
GuardChapters ==
    MergeTrailingSingleton(PairChunks([n \in 1 .. NumNodes |-> n], 1))

\* node_idx == 1: the node is the first one of its chapter
FirstInChapter(node) == \E c \in 1 .. Len(GuardChapters) : GuardChapters[c][1] = node

\* the chapter title is read out as one more line
ChapterLine == <<"c", "h">>

InitGuard ==
    /\ \E titles \in [1 .. NumNodes -> NodeTitles] :
          gd = [pc |-> "generate", node |-> 1, titles |-> titles,
                section_script |-> <<>>, tries |-> 0, novelty |-> 0,
                attempt_scores |-> <<>>, regenerations |-> 0, rewrites |-> 0,
                was_off_topic |-> FALSE, still_off_topic |-> FALSE,
                body_generated |-> 0, submitted |-> 0,
                coverage_memory |-> [covered_node_ids |-> <<>>, covered_points |-> <<>>],
                recorded |-> <<>>,
                conclusion_reads |-> <<>>]
    /\ AgendaIdle
    /\ TimingIdle
    /\ JobIdle
    /\ StoreIdle
    /\ NoveltyIdle

\* the per-section locals as they are when the next node begins
NextNode(frame) ==
    [frame EXCEPT !.node = @ + 1,
                  !.pc = IF frame.node < NumNodes THEN "generate" ELSE "conclusion",
                  !.section_script = <<>>, !.tries = 0, !.novelty = 0,
                  !.attempt_scores = <<>>, !.regenerations = 0, !.rewrites = 0,
                  !.was_off_topic = FALSE, !.still_off_topic = FALSE]

\* generate_body_section (lines 698-711); an empty result skips the node
GuardGenerate ==
    /\ gd.pc = "generate"
    /\ \E s \in GuardScripts :
          gd' = IF s = <<>> THEN NextNode(gd)
                ELSE [gd EXCEPT
                        !.section_script = s,
                        !.was_off_topic = is_off_topic_section(gd.titles[gd.node], s),
                        !.still_off_topic = is_off_topic_section(gd.titles[gd.node], s),
                        !.pc = IF is_off_topic_section(gd.titles[gd.node], s)
                               THEN "topicality" ELSE "novelty"]
    /\ UNCHANGED <<agVars, tmVars, jobVars, stVars, nvVars>>

\* Variant of TopicalityLoopEnds: the loop always makes all its passes.
TopicalityLoopEnds_no_break(off, tries) == tries + 1 = TopicalityRetries

\* lines 713 and 727-728: the loop ends on an on-topic text or after its passes
TopicalityLoopEnds(off, tries) == ~off \/ tries + 1 = TopicalityRetries

\* one pass of the loop of lines 713-728
GuardRegenerate ==
    /\ gd.pc = "topicality"
    /\ gd.regenerations < TopicalityRetries + 1
    /\ \E retried \in GuardScripts :
          LET section_script == IF retried # <<>> THEN retried ELSE gd.section_script
              off == is_off_topic_section(gd.titles[gd.node], section_script)
          IN  gd' = [gd EXCEPT
                       !.section_script = section_script,
                       !.regenerations = @ + 1,
                       !.still_off_topic = off,
                       !.tries = IF TopicalityLoopEnds(off, gd.tries) THEN 0 ELSE @ + 1,
                       !.pc = IF TopicalityLoopEnds(off, gd.tries)
                              THEN "novelty" ELSE "topicality"]
    /\ UNCHANGED <<agVars, tmVars, jobVars, stVars, nvVars>>

\* lines 730-735: the novelty of the text and the decision to rewrite
GuardNovelty ==
    /\ gd.pc = "novelty"
    /\ LET novelty == compute_section_novelty(gd.section_script,
                                              gd.coverage_memory.covered_points)
       IN  gd' = [gd EXCEPT
                    !.novelty = novelty,
                    !.attempt_scores = <<novelty>>,
                    !.pc = IF novelty < novelty_threshold THEN "rewrite" ELSE "record"]
    /\ UNCHANGED <<agVars, tmVars, jobVars, stVars, nvVars>>

\* line 746: if rewritten and rewritten != section_script
AcceptRewrite(rewritten, section_script, covered_points) ==
    rewritten # <<>> /\ rewritten # section_script

\* Variant of RewriteLoopEnds: the loop goes on until the threshold is met.
RewriteLoopEnds_only_at_threshold(novelty, tries) == novelty >= novelty_threshold

\* lines 736 and 753-754: the loop ends at the threshold or after its passes
RewriteLoopEnds(novelty, tries) ==
    novelty >= novelty_threshold \/ tries + 1 = NoveltyRetries

\* one pass of the loop of lines 736-754; rewrite_section_to_reduce_overlap
\* returns the section it was given when the model returns nothing or fails
GuardRewrite ==
    /\ gd.pc = "rewrite"
    /\ gd.rewrites < NoveltyRetries + 1
    /\ \E chunk \in GuardScripts :
          LET covered_points == gd.coverage_memory.covered_points
              rewritten == IF chunk # <<>> THEN chunk ELSE gd.section_script
              accepted == AcceptRewrite(rewritten, gd.section_script, covered_points)
              novelty == IF accepted
                         THEN compute_section_novelty(rewritten, covered_points)
                         ELSE gd.novelty
          IN  gd' = [gd EXCEPT
                       !.section_script = IF accepted THEN rewritten ELSE @,
                       !.novelty = novelty,
                       !.attempt_scores =
                           Append(@, compute_section_novelty(rewritten, covered_points)),
                       !.rewrites = @ + 1,
                       !.tries = IF RewriteLoopEnds(novelty, gd.tries) THEN 0 ELSE @ + 1,
                       !.pc = IF RewriteLoopEnds(novelty, gd.tries)
                              THEN "record" ELSE "rewrite"]
    /\ UNCHANGED <<agVars, tmVars, jobVars, stVars, nvVars>>

\* lines 762-766: what the section adds to coverage_memory
CoverageAfter(coverage_memory, node, delta) ==
    [covered_node_ids |-> Append(coverage_memory.covered_node_ids, node),
     covered_points |-> AppendNewPoints(coverage_memory.covered_points,
                                        delta.new_points, 1)]

\* lines 756-857: the summary, the coverage memory, the chapter title, the
\* section record and the submission of the section's synthesis task
GuardRecord ==
    /\ gd.pc = "record"
    /\ \E answered \in BOOLEAN, points_raw \in SeqsUpTo(RawPoints, 2),
          question \in RawQuestions :
          LET delta == summarize_section_delta(gd.section_script, answered,
                                               points_raw, question)
              coverage_memory == CoverageAfter(gd.coverage_memory, gd.node, delta)
              lines == IF FirstInChapter(gd.node)
                       THEN <<ChapterLine>> \o gd.section_script
                       ELSE gd.section_script
              idx == gd.body_generated + 1
          IN  /\ ~answered => (points_raw = <<>> /\ question = <<>>)
              /\ gd' = NextNode(
                    [gd EXCEPT
                       !.coverage_memory = coverage_memory,
                       !.body_generated = idx,
                       !.submitted = @ + 1,
                       !.recorded = <<
                           [section_index |-> idx, node |-> gd.node,
                            lines |-> lines, status |-> "generated",
                            novelty_score |-> gd.novelty,
                            attempt_scores |-> gd.attempt_scores,
                            rewrites |-> gd.rewrites,
                            was_off_topic |-> gd.was_off_topic,
                            still_off_topic |-> gd.still_off_topic,
                            regenerations |-> gd.regenerations,
                            points_added |-> Len(coverage_memory.covered_points)
                                               - Len(gd.coverage_memory.covered_points),
                            carry_open_question |-> delta.carry_open_question]>>])
    /\ UNCHANGED <<agVars, tmVars, jobVars, stVars, nvVars>>

\* dict.get(key) or []
GetOrEmpty(dict, key) == IF key \in DOMAIN dict THEN dict[key] ELSE <<>>

\* generate_conclusion (generator.py lines 787-788) reads covered_points and
\* open_questions out of coverage_memory
GuardConclusion ==
    /\ gd.pc = "conclusion"
    /\ gd' = [gd EXCEPT
                !.pc = "done",
                !.conclusion_reads =
                    <<[covered_points |-> GetOrEmpty(gd.coverage_memory, "covered_points"),
                       open_questions |-> GetOrEmpty(gd.coverage_memory, "open_questions")]>>]
    /\ UNCHANGED <<agVars, tmVars, jobVars, stVars, nvVars>>

NextGuard ==
    \/ GuardGenerate
    \/ GuardRegenerate
    \/ GuardNovelty
    \/ GuardRewrite
    \/ GuardRecord
    \/ GuardConclusion

SpecGuard == InitGuard /\ [][NextGuard]_vars

\* C27: the text recorded for a section is the best attempt of the novelty
\* guard: the novelty_score reported for the section is at least the novelty
\* of the original text and of every rewrite the guard produced.
C27_RecordedIsBestAttempt ==
    \A k \in 1 .. Len(gd.recorded) :
        \A j \in 1 .. Len(gd.recorded[k].attempt_scores) :
            gd.recorded[k].novelty_score >= gd.recorded[k].attempt_scores[j]

\* C28: the novelty guard calls the rewrite at most 2 times for a section,
\* only while the novelty is below the threshold (so it stops as soon as the
\* threshold is reached), and after the guard the section can always be
\* recorded and is submitted, whether or not the threshold was met.
C28_NoveltyGuardIsBounded ==
    /\ [](/\ gd.rewrites <= NoveltyRetries
          /\ gd.pc = "rewrite" =>
                (gd.novelty < novelty_threshold /\ gd.rewrites < NoveltyRetries)
          /\ gd.rewrites > 0 => gd.attempt_scores[1] < novelty_threshold
          /\ gd.submitted = gd.body_generated
          /\ \A k \in 1 .. Len(gd.recorded) :
                LET r == gd.recorded[k]
                IN  /\ r.rewrites <= NoveltyRetries
                    /\ r.rewrites = Len(r.attempt_scores) - 1
                    /\ \A j \in 1 .. r.rewrites :
                          r.attempt_scores[j] < novelty_threshold)
    /\ [][/\ gd.pc = "rewrite" =>
                (gd'.pc = "record" <=> (\/ gd'.novelty >= novelty_threshold
                                        \/ gd'.rewrites = NoveltyRetries))
          /\ gd.pc = "record" =>
                /\ gd'.body_generated = gd.body_generated + 1
                /\ gd'.submitted = gd.submitted + 1
                /\ gd'.recorded[1].novelty_score = gd.novelty]_vars

C28_Witness ==
    \E k \in 1 .. Len(gd.recorded) :
        /\ gd.recorded[k].rewrites = NoveltyRetries
        /\ gd.recorded[k].novelty_score < novelty_threshold
        /\ gd.submitted = gd.recorded[k].section_index

\* C29: the text of a section is regenerated at most 2 times, only while the
\* topicality guard finds it off-topic (so the retries stop as soon as a
\* result is on-topic), and after the retries the pipeline goes on to the
\* novelty guard with the current text even if it is still off-topic.
C29_TopicalityGuardIsBounded ==
    /\ [](/\ gd.regenerations <= TopicalityRetries
          /\ gd.pc = "topicality" =>
                /\ gd.regenerations < TopicalityRetries
                /\ is_off_topic_section(gd.titles[gd.node], gd.section_script)
          /\ gd.regenerations > 0 => gd.was_off_topic
          /\ (gd.pc \in {"novelty", "rewrite", "record"} /\ gd.still_off_topic) =>
                gd.regenerations = TopicalityRetries
          /\ \A k \in 1 .. Len(gd.recorded) :
                LET r == gd.recorded[k]
                IN  /\ r.regenerations <= TopicalityRetries
                    /\ r.regenerations > 0 => r.was_off_topic
                    /\ r.still_off_topic => r.regenerations = TopicalityRetries)
    /\ [][gd.pc = "topicality" =>
              /\ gd'.pc \in {"topicality", "novelty"}
              /\ gd'.pc = "novelty" <=>
                    (\/ ~is_off_topic_section(gd.titles[gd.node], gd'.section_script)
                     \/ gd'.regenerations = TopicalityRetries)]_vars

C29_Witness ==
    \E k \in 1 .. Len(gd.recorded) :
        /\ gd.recorded[k].regenerations = TopicalityRetries
        /\ gd.recorded[k].still_off_topic

\* C30: every recorded body section appends 1 to 2 new covered points and
\* its open question to the coverage memory, where the later sections and the
\* conclusion read them.
C30_CoverageMemoryGrows ==
    \A k \in 1 .. Len(gd.recorded) :
        /\ gd.recorded[k].points_added \in 1 .. 2
        /\ \E q \in Range(GetOrEmpty(gd.coverage_memory, "open_questions")) :
              q = gd.recorded[k].carry_open_question

\* the chapter a body node belongs to
ChapterOf(node) ==
    CHOOSE c \in 1 .. Len(GuardChapters) : node \in Range(GuardChapters[c])

\* the section of node is the first one recorded for its chapter: no earlier
\* node of the chapter is among the nodes recorded before it
FirstRecordedOfChapter(node, covered_node_ids) ==
    ~\E n \in Range(covered_node_ids) : n < node /\ ChapterOf(n) = ChapterOf(node)

\* C31: the first recorded section of every chapter begins with the chapter's
\* title line, and no other recorded section has a title line prepended.
C31_ChapterTitleOnFirstRecorded ==
    \A k \in 1 .. Len(gd.recorded) :
        LET r == gd.recorded[k]
        IN  (r.lines[1] = ChapterLine)
                <=> FirstRecordedOfChapter(r.node, gd.coverage_memory.covered_node_ids)

\* C32: the section_index of every recorded body section is the 1-based
\* position of its node in the order of the agenda (0 being the intro and
\* the number of nodes plus one the conclusion).
C32_SectionIndexIsNodePosition ==
    \A k \in 1 .. Len(gd.recorded) :
        /\ gd.recorded[k].section_index \in 1 .. NumNodes
        /\ gd.recorded[k].section_index = gd.recorded[k].node

\* C33: after global timing reconstruction the span of every section starts
\* at the running cursor (0 for the first section, the global_end_ms of the
\* section before for the others) and its length is the larger of the largest
\* local end_ms of its lines and its recorded audio_ms.
C33_SectionSpanIsMaxOfEndAndAudio ==
    tm_pc = "done" =>
        LET secs == SortBySectionIndex(tm_sections)
        IN  \A i \in 1 .. Len(secs) :
                /\ secs[i].global_start_ms =
                       IF i = 1 THEN 0 ELSE secs[i - 1].global_end_ms
                /\ secs[i].global_end_ms - secs[i].global_start_ms =
                       Max2(LineMaxEnd(secs[i].lines), IntOr0(secs[i].audio_ms))

\* C34: merging a synthesis result with m line timings into a section with n
\* lines writes start_ms and end_ms of the lines 1 .. min(m, n) only: the
\* other lines, the text of every line and the number of lines stay as they
\* were, and the other sections are not touched.
C34_MergeWritesOnlySharedPrefix ==
    [][tm_stats' # tm_stats =>
          LET k == tm_stats'[1].section
              line_timings == tm_stats'[1].stats_out.line_timings
              before == tm_sections[k].lines
              after == tm_sections'[k].lines
              shared == Min2(Len(line_timings), Len(before))
          IN  /\ Len(after) = Len(before)
              /\ \A i \in 1 .. Len(before) :
                    IF i <= shared
                    THEN after[i] = [before[i] EXCEPT
                                        !.start_ms = line_timings[i].start_ms,
                                        !.end_ms = line_timings[i].end_ms]
                    ELSE after[i] = before[i]
              /\ \A j \in DOMAIN tm_sections : j # k => tm_sections'[j] = tm_sections[j]
      ]_vars

\* a result with fewer timings than the section has lines was merged
C34_Witness ==
    /\ tm_stats # <<>>
    /\ LET k == tm_stats[1].section
           m == Len(tm_stats[1].stats_out.line_timings)
       IN  /\ m >= 1
           /\ m < Len(tm_sections[k].lines)
           /\ tm_sections[k].lines[m].start_ms # Absent
           /\ tm_sections[k].lines[m + 1].start_ms = Absent

\* C35: every section line that received start_ms and end_ms from a merged
\* synthesis result received the timing the provider computed for that same
\* line (same text), also when the provider skipped a line.
C35_TimingBelongsToSameLine ==
    tm_stats # <<>> =>
        LET k == tm_stats[1].section
            line_timings == tm_stats[1].stats_out.line_timings
            lines == tm_sections[k].lines
        IN  \A i \in 1 .. Len(lines) :
                lines[i].start_ms # Absent =>
                    \E j \in 1 .. Len(line_timings) :
                        /\ line_timings[j].text = lines[i].text
                        /\ line_timings[j].start_ms = lines[i].start_ms
                        /\ line_timings[j].end_ms = lines[i].end_ms

\* One step of run_pipeline and its tasks: a task that is registered in
\* pending_tts has a section_index no task had before, a task leaves
\* pending_tts only when its future is done, and the section it is popped for
\* has no ready chunk (hence no ready event) yet.
TasksRegisteredAndPoppedOnce ==
    /\ pl'.body_generated # pl.body_generated =>
          /\ pl'.body_generated = pl.body_generated + 1
          /\ pl'.body_generated \in 1 .. NumNodes
          /\ futures[pl'.body_generated] = "none"
          /\ futures'[pl'.body_generated] # "none"
          /\ pl'.pending_tts = pl.pending_tts \cup {pl'.body_generated}
    /\ \A idx \in pl'.pending_tts \ pl.pending_tts :
          /\ futures[idx] \notin {"ok", "failed"}
          /\ futures'[idx] # "none"
          /\ idx \notin DictKeys(pl.ready_chunks_by_index)
          /\ idx \in 1 .. NumNodes => pl'.body_generated = idx /\ pl.body_generated = idx - 1
          /\ idx = conclusion_index => futures[idx] = "none"
    /\ \A idx \in pl.pending_tts \ pl'.pending_tts :
          /\ futures[idx] = "done"
          /\ futures'[idx] \in {"ok", "failed"}
          /\ idx \notin DictKeys(pl.ready_chunks_by_index)
    /\ \A idx \in DictKeys(pl'.ready_chunks_by_index) \ DictKeys(pl.ready_chunks_by_index) :
          idx \in pl.pending_tts \ pl'.pending_tts

\* the section indexes have pairwise distinct output files
FilenamesDistinct ==
    \A i, j \in SectionIndexes : i # j => MetaFilename(i) # MetaFilename(j)

\* C36: no two synthesis tasks submitted to the pending registry share a
\* section_index or an output filename (also when body sections are skipped),
\* every one of them is removed from the registry exactly once (it leaves the
\* registry one time, the registry is empty when run_pipeline is over and
\* every task has been consumed once run_pipeline is past its final drain),
\* and each section_index gets at most one ready event.
C36_RegisteredTasksConsumedOnce ==
    /\ [](FilenamesDistinct
            /\ (pl.pc \in {"finalize", "synthesis_completed", "returned", "raised"}
                    => pl.pending_tts = {})
            /\ (pl.pc \in {"finalize", "synthesis_completed", "returned"}
                    => \A idx \in SectionIndexes :
                          futures[idx] \in {"none", "ok", "failed"}))
    /\ [][TasksRegisteredAndPoppedOnce]_vars

\* a run that skipped a body section returned with all its tasks consumed
C36_Witness ==
    /\ pl.pc = "returned"
    /\ futures[0] \in {"ok", "failed"}
    /\ futures[1] \in {"ok", "failed"}
    /\ futures[NumNodes] = "none"
    /\ futures[conclusion_index] = "ok"

\* the elements of a sequence are pairwise distinct
Distinct(seq) == \A i, j \in 1 .. Len(seq) : i # j => seq[i] # seq[j]

\* how many times x occurs in seq
Occurrences(seq, x) == Cardinality({i \in 1 .. Len(seq) : seq[i] = x})

\* C37: when the titled nodes of the input carry pairwise distinct ids, the
\* nodes of the normalized agenda have pairwise distinct ids, and
\* ordered_node_ids and the chapters contain each node exactly once.
C37_NormalizedIdsAreDistinct ==
    LET titled == CollectNodes(ag_raw.nodes, 1)
        ids == [i \in 1 .. Len(agenda.nodes) |-> agenda.nodes[i].id]
        in_chapters == ConcatAll([i \in 1 .. Len(agenda.chapters) |->
                                      agenda.chapters[i].node_ids])
    IN  (ag_pc \in {"normalized", "chaptered"}
            /\ Distinct([i \in 1 .. Len(titled) |-> titled[i].id]))
        => /\ Distinct(ids)
           /\ \A i \in 1 .. Len(ids) :
                 /\ Occurrences(agenda.ordered_node_ids, ids[i]) = 1
                 /\ Occurrences(in_chapters, ids[i]) = 1

\* the counters of one progress payload are ordered
ProgressOrdered(progress) ==
    /\ progress.synthesized_sections <= progress.generated_sections
    /\ progress.generated_sections <= progress.total_sections

\* a metrics dict that holds a progress payload and a ready_chunk_count
\* holds the same number of synthesized sections in both
ProgressMatchesChunks(metrics) ==
    /\ "progress" \in DOMAIN metrics => ProgressOrdered(metrics.progress)
    /\ ("progress" \in DOMAIN metrics /\ "ready_chunk_count" \in DOMAIN metrics)
          => metrics.progress.synthesized_sections = metrics.ready_chunk_count

\* C38: in every state of run_pipeline and in every progress payload,
\* synthesized_sections is the number of entries of ready_chunks_by_index
\* (and ready_chunk_count), and synthesized_sections <= generated_sections
\* <= total_sections.
C38_ProgressCountersConsistent ==
    /\ pl.synthesized_sections = Len(pl.ready_chunks_by_index)
    /\ pl.synthesized_sections = Len(pl.ready_chunk_filenames)
    /\ pl.synthesized_sections <= pl.generated_sections_count
    /\ pl.generated_sections_count <= pl.total_sections
    /\ ProgressMatchesChunks(pl.metrics)
    /\ ProgressMatchesChunks(job.metrics)
    /\ "progress" \in DOMAIN pl.metrics =>
          pl.metrics.progress.synthesized_sections <= pl.synthesized_sections

\* a chunk is ready while a later section is generated and not yet ready,
\* and the job has seen a payload with both numbers
C38_Witness ==
    /\ pl.synthesized_sections >= 1
    /\ pl.generated_sections_count > pl.synthesized_sections
    /\ "progress" \in DOMAIN job.metrics
    /\ "ready_chunk_count" \in DOMAIN job.metrics
    /\ job.metrics.ready_chunk_count >= 1
    /\ job.metrics.progress.generated_sections > job.metrics.ready_chunk_count

\* The steps of run_pipeline other than the loop over the done futures.
PipelineCalls ==
    \/ PreResearch
    \/ AgendaPlanning
    \/ GenerateIntro
    \/ SearchNews
    \/ CheckArticles
    \/ Filter
    \/ Extract
    \/ GenerateBodySection
    \/ ConsumeCompletedTts
    \/ DrainPendingTts
    \/ GenerateConclusion
    \/ FinalizeAudio
    \/ SynthesisCompleted

\* The thread of run_pipeline always takes its next step (every collaborator
\* call returns), every running synthesis task finishes, and the event loop
\* resumes _execute_job.  Nothing makes the timeout expire.  The third
\* conjunct is weak fairness of ConsumeFutureStep, which is enabled exactly
\* when run_pipeline is inside `for future in done`.
LiveSpec ==
    /\ Spec
    /\ WF_vars(PipelineCalls)
    /\ ([]<>(pl.pc # "consume_iter") \/ []<><<ConsumeFutureStep>>_vars)
    /\ WF_vars(TaskFinish)
    /\ WF_vars(RunnerNext)

\* C39: when every collaborator call returns and every submitted synthesis
\* task finishes, run_pipeline terminates (it returns or raises), every drain
\* loop it enters exits with an empty pending registry, and the job reaches
\* completed or failed.
C39_PipelineTerminates ==
    /\ <>(pl.pc \in {"returned", "raised"})
    /\ (pl.pc = "drain") ~> (pl.pc \notin {"drain", "consume_iter"} /\ pl.pending_tts = {})
    /\ <>(job.status \in {"completed", "failed"})

\* a serial-mode run went through its drain loops with every task submitted
\* and returned, and the job is completed
C39_Witness ==
    /\ env.tts_serial_mode
    /\ pl.pc = "returned"
    /\ pl.pending_tts = {}
    /\ \A idx \in SectionIndexes : futures[idx] \in {"ok", "failed"}
    /\ job.status = "completed"

====
